---- MODULE Spec2Model ----
(***************************************************************************)
(* Model of the structured naming engine of PyJalLib:                      *)
(*   src/src/pyjallib/namePart.py  (class NamePart)                        *)
(*   src/src/pyjallib/naming.py    (class Naming)                          *)
(*                                                                         *)
(* A Python str is modelled as a sequence of one-character strings, so     *)
(* "L_a" is <<"L", "_", "a">> and the empty string is << >>.  A Python     *)
(* list is a sequence, a dict a function from part names to strings.       *)
(***************************************************************************)
EXTENDS Integers, Sequences, FiniteSets, TLC

(***************************************************************************)
(* Bounds of the model                                                     *)
(***************************************************************************)
\* longest list of predefined values handed to / grown in a NamePart
MaxValues == 2

\* longest raw name string handed to a Naming operation
MaxLen == 3

\* most operations applied to names in one behaviour
MaxCalls == 2

\* widest padding asked of set_index_padding_num
MaxPad == 2

\* largest amount (in absolute value) handed to increase_index
MaxAmount == 2

\* longest list of names handed to sort_by_index
MaxNames == 3

(***************************************************************************)
(* Generic list helpers (Python list semantics)                            *)
(***************************************************************************)
\* all sequences over S of length 0..n
SeqUpTo(S, n) == UNION {[1..m -> S] : m \in 0..n}

\* x in lst
Contains(lst, x) == \E i \in 1..Len(lst) : lst[i] = x

\* lst.index(x): 1-based position of the first occurrence, 0 when absent
\* (Python raises ValueError when absent; callers guard with Contains)
IndexOf(lst, x) ==
    IF Contains(lst, x)
    THEN CHOOSE i \in 1..Len(lst) : lst[i] = x /\ \A j \in 1..(i-1) : lst[j] # x
    ELSE 0

\* lst.pop(i) with 1-based i
RemoveAt(lst, i) == [j \in 1..(Len(lst)-1) |-> IF j < i THEN lst[j] ELSE lst[j+1]]

\* lst.remove(x): removes the first occurrence
RemoveFirst(lst, x) == IF Contains(lst, x) THEN RemoveAt(lst, IndexOf(lst, x)) ELSE lst

\* [x] * n
Repeat(x, n) == [j \in 1..n |-> x]

\* lst[:n]
Take(lst, n) == [j \in 1..(IF n < Len(lst) THEN n ELSE Len(lst)) |-> lst[j]]

(***************************************************************************)
(* NamePart (namePart.py)                                                  *)
(***************************************************************************)
NamePartType == {"PREFIX", "SUFFIX", "REALNAME", "INDEX", "UNDEFINED"}

\* the description-list normalisation of __init__ and set_predefined_values:
\* pad with "" when shorter than the value list, truncate when longer
FitLength(descs, n) ==
    IF Len(descs) < n THEN descs \o Repeat(<< >>, n - Len(descs))
    ELSE IF Len(descs) > n THEN Take(descs, n)
    ELSE descs

\* _initialize_type_defaults clearing the sequences for INDEX only
_initialize_type_defaults_index_only(p) ==
    IF p.type = "INDEX"
    THEN [p EXCEPT !.predefinedValues = << >>, !.descriptions = << >>,
                   !.koreanDescriptions = << >>, !.weights = << >>]
    ELSE p

\* NamePart._initialize_type_defaults
_initialize_type_defaults(p) ==
    IF p.type = "INDEX" \/ p.type = "REALNAME"
    THEN [p EXCEPT !.predefinedValues = << >>, !.descriptions = << >>,
                   !.koreanDescriptions = << >>, !.weights = << >>]
    ELSE p

\* NamePart._update_weights.  Returns the object and whether the call raised.
\* For REALNAME/INDEX it clears the weights and returns.  Otherwise it clears
\* the weights and then executes "for i in num_values" with num_values an
\* int: iterating an int raises TypeError before the first pass of the loop
\* body, for every length (0 included), so no weight is ever appended.
_update_weights(p) ==
    IF p.type = "REALNAME" \/ p.type = "INDEX"
    THEN [obj |-> [p EXCEPT !.weights = << >>], raised |-> FALSE]
    ELSE [obj |-> [p EXCEPT !.weights = << >>], raised |-> TRUE]

\* An optional list argument (None or a list)
NoneArg == [given |-> FALSE, list |-> << >>]
ListArg(l) == [given |-> TRUE, list |-> l]

\* NamePart.__init__: the fields as the constructor assigns them, and whether
\* it raised (then the caller receives no object).
NamePart__init__(inName, inType, inPredefinedValues, inDescriptions, inIsDirection, inKoreanDescriptions) ==
    LET n == Len(inPredefinedValues)
        p0 == [name |-> inName,
               predefinedValues |-> inPredefinedValues,
               weights |-> << >>,
               type |-> inType,
               descriptions |-> FitLength(IF inDescriptions.given THEN inDescriptions.list
                                          ELSE Repeat(<< >>, n), n),
               koreanDescriptions |-> FitLength(IF inKoreanDescriptions.given THEN inKoreanDescriptions.list
                                                ELSE Repeat(<< >>, n), n),
               isDirection |-> (inIsDirection = TRUE)]
    IN _update_weights(_initialize_type_defaults(p0))

\* NamePart.from_dict for a dict that has a "name" key: absent lists default to []
from_dict(inName, inType, inPredefinedValues, inDescriptions, inIsDirection, inKoreanDescriptions) ==
    NamePart__init__(inName, inType, inPredefinedValues, ListArg(inDescriptions),
                     inIsDirection, ListArg(inKoreanDescriptions))

\* NamePart.set_type
set_type(p, inType) ==
    LET r == _update_weights(_initialize_type_defaults([p EXCEPT !.type = inType]))
    IN [obj |-> r.obj, ret |-> IF r.raised THEN "TypeError" ELSE "None"]

\* add_predefined_value without the "inValue not in self._predefinedValues" test
add_predefined_value_unchecked(p, inValue, inDescription, inKoreanDescription) ==
    IF p.type = "REALNAME" \/ p.type = "INDEX"
    THEN [obj |-> p, ret |-> "False"]
    ELSE LET r == _update_weights(
                     [p EXCEPT !.predefinedValues = Append(@, inValue),
                               !.descriptions = Append(@, inDescription),
                               !.koreanDescriptions = Append(@, inKoreanDescription)])
         IN [obj |-> r.obj, ret |-> IF r.raised THEN "TypeError" ELSE "True"]

\* NamePart.add_predefined_value
add_predefined_value(p, inValue, inDescription, inKoreanDescription) ==
    IF p.type = "REALNAME" \/ p.type = "INDEX"
    THEN [obj |-> p, ret |-> "False"]
    ELSE IF ~Contains(p.predefinedValues, inValue)
    THEN LET r == _update_weights(
                     [p EXCEPT !.predefinedValues = Append(@, inValue),
                               !.descriptions = Append(@, inDescription),
                               !.koreanDescriptions = Append(@, inKoreanDescription)])
         IN [obj |-> r.obj, ret |-> IF r.raised THEN "TypeError" ELSE "True"]
    ELSE [obj |-> p, ret |-> "False"]

\* remove_predefined_value popping the last description instead of the one
\* at the position of the value
remove_predefined_value_last_description(p, inValue) ==
    IF Contains(p.predefinedValues, inValue)
    THEN LET index == IndexOf(p.predefinedValues, inValue)
             r == _update_weights(
                     [p EXCEPT !.predefinedValues = RemoveFirst(@, inValue),
                               !.descriptions = RemoveAt(@, Len(@)),
                               !.koreanDescriptions = RemoveAt(@, index),
                               !.weights = IF index <= Len(@) THEN RemoveAt(@, index) ELSE @])
         IN [obj |-> r.obj, ret |-> IF r.raised THEN "TypeError" ELSE "True"]
    ELSE [obj |-> p, ret |-> "False"]

\* NamePart.remove_predefined_value
remove_predefined_value(p, inValue) ==
    IF Contains(p.predefinedValues, inValue)
    THEN LET index == IndexOf(p.predefinedValues, inValue)
             r == _update_weights(
                     [p EXCEPT !.predefinedValues = RemoveFirst(@, inValue),
                               !.descriptions = RemoveAt(@, index),
                               !.koreanDescriptions = RemoveAt(@, index),
                               !.weights = IF index <= Len(@) THEN RemoveAt(@, index) ELSE @])
         IN [obj |-> r.obj, ret |-> IF r.raised THEN "TypeError" ELSE "True"]
    ELSE [obj |-> p, ret |-> "False"]

\* NamePart.set_predefined_values ("if inDescriptions:" is false for None and [])
set_predefined_values(p, inValues, inDescriptions, inKoreanDescriptions) ==
    IF p.type = "REALNAME" \/ p.type = "INDEX"
    THEN [obj |-> p, ret |-> "None"]
    ELSE LET n == Len(inValues)
             r == _update_weights(
                     [p EXCEPT !.predefinedValues = inValues,
                               !.descriptions =
                                   IF inDescriptions.given /\ inDescriptions.list # << >>
                                   THEN FitLength(inDescriptions.list, n)
                                   ELSE Repeat(<< >>, n),
                               !.koreanDescriptions =
                                   IF inKoreanDescriptions.given /\ inKoreanDescriptions.list # << >>
                                   THEN FitLength(inKoreanDescriptions.list, n)
                                   ELSE Repeat(<< >>, n)])
         IN [obj |-> r.obj, ret |-> IF r.raised THEN "TypeError" ELSE "None"]

\* NamePart.clear_predefined_values
clear_predefined_values(p) ==
    IF p.type = "REALNAME" \/ p.type = "INDEX"
    THEN [obj |-> p, ret |-> "None"]
    ELSE [obj |-> [p EXCEPT !.predefinedValues = << >>, !.descriptions = << >>,
                            !.koreanDescriptions = << >>, !.weights = << >>],
          ret |-> "None"]

\* NamePart.set_description
set_description(p, inValue, inDescription) ==
    IF Contains(p.predefinedValues, inValue)
    THEN [obj |-> [p EXCEPT !.descriptions[IndexOf(p.predefinedValues, inValue)] = inDescription],
          ret |-> "True"]
    ELSE [obj |-> p, ret |-> "False"]

ValueError == <<"ValueError">>

\* NamePart.get_value_by_weight: list.index raises ValueError when no weight
\* equals inRank
get_value_by_weight(p, inRank) ==
    IF Len(p.predefinedValues) # Len(p.weights) \/ Len(p.predefinedValues) <= 0 THEN << >>
    ELSE IF Contains(p.weights, inRank) THEN p.predefinedValues[IndexOf(p.weights, inRank)]
    ELSE ValueError

\* NamePart.get_value_by_min_weight
get_value_by_min_weight(p) ==
    IF Len(p.predefinedValues) # Len(p.weights) \/ Len(p.predefinedValues) <= 0 THEN << >>
    ELSE p.predefinedValues[1]

\* NamePart.get_value_by_max_weight
get_value_by_max_weight(p) ==
    IF Len(p.predefinedValues) # Len(p.weights) \/ Len(p.predefinedValues) <= 0 THEN << >>
    ELSE p.predefinedValues[Len(p.predefinedValues)]

\* NamePart.get_description_by_value
get_description_by_value(p, inValue) ==
    IF Contains(p.predefinedValues, inValue)
    THEN p.descriptions[IndexOf(p.predefinedValues, inValue)]
    ELSE << >>

\* NamePart.get_korean_description_by_value
get_korean_description_by_value(p, inValue) ==
    IF Contains(p.predefinedValues, inValue)
    THEN p.koreanDescriptions[IndexOf(p.predefinedValues, inValue)]
    ELSE << >>

\* NamePart.get_value_by_description
get_value_by_description(p, inDescription) ==
    IF Contains(p.descriptions, inDescription)
    THEN p.predefinedValues[IndexOf(p.descriptions, inDescription)]
    ELSE << >>

\* NamePart.get_value_by_korean_description
get_value_by_korean_description(p, inKoreanDescription) ==
    IF Contains(p.koreanDescriptions, inKoreanDescription)
    THEN p.predefinedValues[IndexOf(p.koreanDescriptions, inKoreanDescription)]
    ELSE << >>

\* NamePart.get_most_different_weight_value: scan of the loop from position i
\* on, carrying maxDiff / maxDiffValue (strict ">" keeps the first maximum)
RECURSIVE MostDifferentScan(_, _, _, _, _)
MostDifferentScan(p, inValue, i, maxDiff, maxDiffValue) ==
    IF i > Len(p.predefinedValues) THEN maxDiffValue
    ELSE IF p.predefinedValues[i] = inValue
    THEN MostDifferentScan(p, inValue, i + 1, maxDiff, maxDiffValue)
    ELSE LET currentWeight == p.weights[IndexOf(p.predefinedValues, inValue)]
             predWeight == IF i <= Len(p.weights) THEN p.weights[i] ELSE 0
             diff == IF currentWeight >= predWeight THEN currentWeight - predWeight
                     ELSE predWeight - currentWeight
         IN IF diff > maxDiff
            THEN MostDifferentScan(p, inValue, i + 1, diff, p.predefinedValues[i])
            ELSE MostDifferentScan(p, inValue, i + 1, maxDiff, maxDiffValue)

\* NamePart.get_most_different_weight_value
get_most_different_weight_value(p, inValue) ==
    IF Len(p.predefinedValues) # Len(p.weights) \/ Len(p.predefinedValues) <= 0 THEN << >>
    ELSE IF ~Contains(p.predefinedValues, inValue) THEN << >>
    ELSE MostDifferentScan(p, inValue, 1, -1, << >>)

(***************************************************************************)
(* Strings (Python str methods used by naming.py)                          *)
(***************************************************************************)
DigitChars == {"0", "1", "2", "3", "4", "5", "6", "7", "8", "9"}

UpperChars == {"A", "B", "C", "D", "E", "F", "G", "H", "I", "J", "K", "L", "M",
               "N", "O", "P", "Q", "R", "S", "T", "U", "V", "W", "X", "Y", "Z"}

\* the character U+00B2 (superscript two), written as a token: one of the
\* characters outside 0-9 for which str.isdigit() is True; int() of it
\* raises ValueError
SuperscriptTwo == "sup2"

\* the characters c with c.isdigit()
IsDigitChars == DigitChars \cup {SuperscriptTwo}

\* str.isdigit(): non-empty and every character a digit
isdigit(s) == s # << >> /\ \A i \in 1..Len(s) : s[i] \in IsDigitChars

\* NamePart.validate_value, for a str argument
validate_value(p, inValue) ==
    IF p.type = "INDEX" THEN isdigit(inValue)
    ELSE IF (p.type = "PREFIX" \/ p.type = "SUFFIX") /\ p.predefinedValues # << >>
    THEN Contains(p.predefinedValues, inValue)
    ELSE IF p.type = "REALNAME" THEN TRUE
    ELSE TRUE

\* int(c) for one digit character
DigitValue(c) ==
    CASE c = "0" -> 0 [] c = "1" -> 1 [] c = "2" -> 2 [] c = "3" -> 3 [] c = "4" -> 4
      [] c = "5" -> 5 [] c = "6" -> 6 [] c = "7" -> 7 [] c = "8" -> 8 [] c = "9" -> 9

DigitChar(n) ==
    CASE n = 0 -> "0" [] n = 1 -> "1" [] n = 2 -> "2" [] n = 3 -> "3" [] n = 4 -> "4"
      [] n = 5 -> "5" [] n = 6 -> "6" [] n = 7 -> "7" [] n = 8 -> "8" [] n = 9 -> "9"

\* int(s) for a digit string (leading zeros ignored)
RECURSIVE int(_)
int(s) ==
    IF s = << >> THEN 0
    ELSE 10 * int(SubSeq(s, 1, Len(s) - 1)) + DigitValue(s[Len(s)])

\* str(n) for n >= 0
RECURSIVE str(_)
str(n) == IF n < 10 THEN <<DigitChar(n)>> ELSE Append(str(n \div 10), DigitChar(n % 10))

\* f"{n:0{w}d}" for n >= 0: decimal digits, zero-padded on the left to w characters
FormatZeroPadded(n, w) ==
    LET d == str(n)
    IN IF Len(d) >= w THEN d ELSE Repeat("0", w - Len(d)) \o d

\* sep.join(lst)
RECURSIVE join(_, _)
join(lst, sep) ==
    IF lst = << >> THEN << >>
    ELSE IF Len(lst) = 1 THEN lst[1]
    ELSE lst[1] \o sep \o join(Tail(lst), sep)

\* s.split(c) for a one-character separator: every segment, empty ones included
RECURSIVE SplitFrom(_, _, _, _)
SplitFrom(s, c, i, cur) ==
    IF i > Len(s) THEN <<cur>>
    ELSE IF s[i] = c THEN <<cur>> \o SplitFrom(s, c, i + 1, << >>)
    ELSE SplitFrom(s, c, i + 1, Append(cur, s[i]))

split(s, c) == SplitFrom(s, c, 1, << >>)

(***************************************************************************)
(* Naming: string helpers (naming.py 95-273)                               *)
(***************************************************************************)
\* the line feed, which "." of a regular expression does not match and before
\* which "$" matches when it is the last character
Newline == "\n"

\* Naming._split_into_string_and_digit: re.match(r'^(.*?)(\d*)$'): group 2 is
\* the longest all-digit tail, group 1 what stands before it; a line feed at
\* the end is in neither group, a line feed elsewhere makes the match fail
\* and the string is returned whole
_split_into_string_and_digit(inStr) ==
    LET n == IF inStr # << >> /\ inStr[Len(inStr)] = Newline THEN Len(inStr) - 1 ELSE Len(inStr)
        k == CHOOSE k \in 0..n :
                 /\ \A i \in (k + 1)..n : inStr[i] \in DigitChars
                 /\ (k = 0 \/ inStr[k] \notin DigitChars)
    IN IF \E i \in 1..n : inStr[i] = Newline THEN <<inStr, << >> >>
       ELSE <<SubSeq(inStr, 1, k), SubSeq(inStr, k + 1, n)>>

\* _get_filtering_char that looks for the underscore first
_get_filtering_char_underscore_first(inStr) ==
    IF Contains(inStr, "_") THEN <<"_">>
    ELSE IF Contains(inStr, " ") THEN <<" ">>
    ELSE << >>

\* Naming._get_filtering_char
_get_filtering_char(inStr) ==
    IF Contains(inStr, " ") THEN <<" ">>
    ELSE IF Contains(inStr, "_") THEN <<"_">>
    ELSE << >>

\* Naming._remove_empty_string_in_array
_remove_empty_string_in_array(inArray) == SelectSeq(inArray, LAMBDA item : item # << >>)

\* Naming._filter_by_filtering_char
_filter_by_filtering_char(inStr) ==
    LET filChar == _get_filtering_char(inStr)
    IN IF filChar = << >> THEN <<inStr>>
       ELSE SelectSeq(split(inStr, filChar[1]), LAMBDA part : part # << >>)

\* Naming._filter_by_upper_case: the loop from position i on
RECURSIVE UpperCaseScan(_, _, _)
UpperCaseScan(inStr, i, currentPart) ==
    IF i > Len(inStr) THEN (IF currentPart # << >> THEN <<currentPart>> ELSE << >>)
    ELSE IF inStr[i] \in UpperChars
    THEN <<currentPart>> \o UpperCaseScan(inStr, i + 1, <<inStr[i]>>)
    ELSE UpperCaseScan(inStr, i + 1, Append(currentPart, inStr[i]))

\* Naming._filter_by_upper_case
_filter_by_upper_case(inStr) ==
    IF inStr = << >> THEN << >> ELSE UpperCaseScan(inStr, 2, <<inStr[1]>>)

\* Naming._has_digit
_has_digit(inStr) == \E i \in 1..Len(inStr) : inStr[i] \in DigitChars

\* Naming._split_to_array: the loop over resultArray in the no-delimiter branch
RECURSIVE SplitDigits(_)
SplitDigits(resultArray) ==
    IF resultArray = << >> THEN << >>
    ELSE LET item == Head(resultArray)
             sd == _split_into_string_and_digit(item)
         IN (IF _has_digit(item)
             THEN (IF sd[1] # << >> THEN <<sd[1]>> ELSE << >>)
                  \o (IF sd[2] # << >> THEN <<sd[2]>> ELSE << >>)
             ELSE <<item>>)
            \o SplitDigits(Tail(resultArray))

\* Naming._split_to_array
_split_to_array(inStr) ==
    IF _get_filtering_char(inStr) = << >>
    THEN SplitDigits(_filter_by_upper_case(inStr))
    ELSE _filter_by_filtering_char(inStr)

\* Naming._combine
_combine(inArray, inFilChar) ==
    LET refinedArray == _remove_empty_string_in_array(inArray)
    IN IF refinedArray = << >> THEN << >>
       ELSE IF Len(refinedArray) = 1 THEN refinedArray[1]
       ELSE join(refinedArray, inFilChar)

(***************************************************************************)
(* Naming: extraction and reconstruction (naming.py 286-609)               *)
(* self is the record [nameParts, paddingNum] of a Naming instance.        *)
(***************************************************************************)
\* what get_name evaluates to when it raises AttributeError (no real string
\* holds a character of more than one letter)
AttributeError == <<"AttributeError">>

\* Naming.get_name_part_index: Python's 0-based index, -1 when absent
get_name_part_index(self, inNamePartName) ==
    IF \E i \in 1..Len(self.nameParts) : self.nameParts[i].name = inNamePartName
    THEN (CHOOSE i \in 1..Len(self.nameParts) :
              /\ self.nameParts[i].name = inNamePartName
              /\ \A j \in 1..(i - 1) : self.nameParts[j].name # inNamePartName) - 1
    ELSE -1

\* Naming.get_name_part is not None
HasNamePart(self, inNamePartName) == get_name_part_index(self, inNamePartName) >= 0

\* Naming.get_name_part (only used where HasNamePart holds)
get_name_part(self, inNamePartName) ==
    self.nameParts[get_name_part_index(self, inNamePartName) + 1]

\* first / last element of nameArray at one of the positions in matches
\* (the positions whose token passes the test of the loop), "" when none
FirstMatch(nameArray, matches) ==
    IF matches # {}
    THEN nameArray[CHOOSE i \in matches : \A j \in matches : i <= j]
    ELSE << >>

LastMatch(nameArray, matches) ==
    IF matches # {}
    THEN nameArray[CHOOSE i \in matches : \A j \in matches : j <= i]
    ELSE << >>

\* pick_name taking the first digit token whatever the order of the parts
pick_name_first_digit(self, inNamePartName, inStr) ==
    LET nameArray == _split_to_array(inStr)
    IN IF ~HasNamePart(self, inNamePartName) THEN << >>
       ELSE LET partObj == get_name_part(self, inNamePartName)
                partType == partObj.type
                partValues == partObj.predefinedValues
                InValues == {i \in 1..Len(nameArray) : Contains(partValues, nameArray[i])}
                Digits == {i \in 1..Len(nameArray) : isdigit(nameArray[i])}
            IN IF partType # "INDEX" /\ partType # "REALNAME" /\ partValues = << >> THEN << >>
               ELSE IF partType = "PREFIX" THEN FirstMatch(nameArray, InValues)
               ELSE IF partType = "SUFFIX" THEN LastMatch(nameArray, InValues)
               ELSE IF partType = "INDEX" THEN FirstMatch(nameArray, Digits)
               ELSE << >>

\* Naming.pick_name, the scan of nameArray for the part partObj
PickFrom(self, nameArray, partObj, InValues, Digits) ==
    IF partObj.type # "INDEX" /\ partObj.type # "REALNAME" /\ partObj.predefinedValues = << >>
    THEN << >>
    ELSE IF partObj.type = "PREFIX" THEN FirstMatch(nameArray, InValues)
    ELSE IF partObj.type = "SUFFIX" THEN LastMatch(nameArray, InValues)
    ELSE IF partObj.type = "INDEX"
    THEN (IF get_name_part_index(self, "Index") > get_name_part_index(self, "RealName")
          THEN LastMatch(nameArray, Digits)
          ELSE FirstMatch(nameArray, Digits))
    ELSE << >>

\* the positions of nameArray whose token is one of partValues
PositionsIn(nameArray, partValues) ==
    {i \in 1..Len(nameArray) : Contains(partValues, nameArray[i])}

\* the positions of nameArray whose token passes isdigit
DigitPositions(nameArray) == {i \in 1..Len(nameArray) : isdigit(nameArray[i])}

\* Naming.pick_name, for a part of the schema
PickOf(self, nameArray, partObj) ==
    PickFrom(self, nameArray, partObj, PositionsIn(nameArray, partObj.predefinedValues),
             DigitPositions(nameArray))

\* Naming.pick_name
pick_name(self, inNamePartName, inStr) ==
    IF ~HasNamePart(self, inNamePartName) THEN << >>
    ELSE PickOf(self, _split_to_array(inStr), get_name_part(self, inNamePartName))

\* the removal loop taking every occurrence of a name out of the list
RemoveEach_every_occurrence(lst, names) == SelectSeq(lst, LAMBDA x : ~Contains(names, x))

\* "for name in names: if name in lst: lst.remove(name)"
RECURSIVE RemoveEach(_, _)
RemoveEach(lst, names) ==
    IF names = << >> THEN lst
    ELSE RemoveEach(RemoveFirst(lst, Head(names)), Tail(names))

\* [self.pick_name(part.get_name(), inStr) for part in parts]
PickNames(self, parts, inStr) == [i \in 1..Len(parts) |-> pick_name(self, parts[i].name, inStr)]

\* get_name that returns the candidate without looking at the other tokens
get_name_unchecked(self, inNamePartName, inStr) ==
    IF ~HasNamePart(self, inNamePartName) THEN AttributeError
    ELSE pick_name(self, inNamePartName, inStr)

\* Naming.get_name, from "if partType == NamePartType.PREFIX" on: the tokens
\* on the outer side of the found token, less the names picked for the parts
\* declared on that side, have to be none
CheckedName(partType, foundName, before, prevNames, behind, nextNames) ==
    IF foundName = << >> THEN << >>
    ELSE IF partType = "PREFIX"
    THEN (IF RemoveEach(before, prevNames) = << >> THEN foundName ELSE << >>)
    ELSE IF partType = "SUFFIX"
    THEN (IF RemoveEach(behind, nextNames) = << >> THEN foundName ELSE << >>)
    ELSE IF partType = "INDEX" THEN foundName
    ELSE << >>

\* Naming.get_name, for a part of the schema at partIndex (from 0) whose
\* pick_name result is foundName
FoundName(self, inStr, nameArray, partIndex, foundName) ==
    CheckedName(self.nameParts[partIndex + 1].type, foundName,
                SubSeq(nameArray, 1, IndexOf(nameArray, foundName) - 1),
                PickNames(self, SubSeq(self.nameParts, 1, partIndex), inStr),
                SubSeq(nameArray, IndexOf(nameArray, foundName) + 1, Len(nameArray)),
                PickNames(self, SubSeq(self.nameParts, partIndex + 2, Len(self.nameParts)), inStr))

\* Naming.get_name
get_name(self, inNamePartName, inStr) ==
    IF ~HasNamePart(self, inNamePartName) THEN AttributeError
    ELSE FoundName(self, inStr, _split_to_array(inStr),
                   get_name_part_index(self, inNamePartName),
                   pick_name(self, inNamePartName, inStr))

\* the loop of get_RealName collecting pick_name instead of get_name
NonRealNameArray_picked(self, inStr) ==
    LET parts == SelectSeq(self.nameParts, LAMBDA part : part.type # "REALNAME")
    IN [i \in 1..Len(parts) |-> pick_name(self, parts[i].name, inStr)]

\* the get_name results of the parts whose type is not REALNAME, in schema order
NonRealNameArray(self, inStr) ==
    LET parts == SelectSeq(self.nameParts, LAMBDA part : part.type # "REALNAME")
    IN [i \in 1..Len(parts) |-> get_name(self, parts[i].name, inStr)]

\* get_RealName that leaves the tokens of the other parts in place
get_RealName_all_tokens(self, inStr) ==
    _combine(_split_to_array(inStr), _get_filtering_char(inStr))

\* Naming.get_RealName
get_RealName(self, inStr) ==
    _combine(RemoveEach(_split_to_array(inStr), NonRealNameArray(self, inStr)),
             _get_filtering_char(inStr))

\* Naming.convert_name_to_array: the slot of the last part named "RealName"
\* gets get_RealName, every other slot get_name
convert_name_to_array(self, inStr) ==
    LET n == Len(self.nameParts)
        IsRealName(i) == self.nameParts[i].name = "RealName"
        realNameIndex == IF \E i \in 1..n : IsRealName(i)
                         THEN CHOOSE i \in 1..n : IsRealName(i) /\ \A j \in (i + 1)..n : ~IsRealName(j)
                         ELSE 0
    IN [i \in 1..n |->
           IF IsRealName(i)
           THEN (IF i = realNameIndex THEN get_RealName(self, inStr) ELSE << >>)
           ELSE get_name(self, self.nameParts[i].name, inStr)]

\* Naming.convert_to_dictionary
convert_to_dictionary(self, inStr) ==
    LET names == {self.nameParts[i].name : i \in 1..Len(self.nameParts)} \cup {"RealName"}
    IN [partName \in names |->
           IF partName = "RealName" THEN get_RealName(self, inStr)
           ELSE get_name(self, partName, inStr)]

\* convert_digit_into_padding_string that prefixes the zeros to the token
convert_digit_into_padding_string_prefix(self, inDigit, inPaddingNum) ==
    Repeat("0", inPaddingNum) \o inDigit

\* Naming.convert_digit_into_padding_string for a str argument
convert_digit_into_padding_string(self, inDigit, inPaddingNum) ==
    LET digitNum == IF isdigit(inDigit) THEN int(inDigit) ELSE 0
    IN FormatZeroPadded(digitNum, inPaddingNum)

\* set_index_padding_num that pads to paddingNum whatever width is asked for
set_index_padding_num_default_width(self, inStr, inPaddingNum) ==
    IF get_name(self, "Index", inStr) = AttributeError THEN AttributeError
    ELSE IF get_name(self, "Index", inStr) # << >>
    THEN _combine([convert_name_to_array(self, inStr)
                       EXCEPT ![get_name_part_index(self, "Index") + 1] =
                           convert_digit_into_padding_string(self, get_name(self, "Index", inStr),
                                                             self.paddingNum)],
                  _get_filtering_char(inStr))
    ELSE _combine(convert_name_to_array(self, inStr), _get_filtering_char(inStr))

\* Naming.set_index_padding_num, from "if indexStr:" on
PadIndexSlot(self, nameArray, indexStr, filChar, inPaddingNum) ==
    IF indexStr = AttributeError THEN AttributeError
    ELSE IF indexStr # << >>
    THEN _combine([nameArray EXCEPT ![get_name_part_index(self, "Index") + 1] =
                       convert_digit_into_padding_string(self, indexStr, inPaddingNum)],
                  filChar)
    ELSE _combine(nameArray, filChar)

\* Naming.set_index_padding_num with an explicit width
set_index_padding_num(self, inStr, inPaddingNum) ==
    PadIndexSlot(self, convert_name_to_array(self, inStr), get_name(self, "Index", inStr),
                 _get_filtering_char(inStr), inPaddingNum)

\* combine without the trailing set_index_padding_num
combine_unpadded(self, inPartsDict, inFilChar) ==
    _combine([i \in 1..Len(self.nameParts) |->
                 IF self.nameParts[i].name \in DOMAIN inPartsDict
                 THEN inPartsDict[self.nameParts[i].name] ELSE << >>], inFilChar)

\* Naming.combine
combine(self, inPartsDict, inFilChar) ==
    LET combinedNameArray ==
            [i \in 1..Len(self.nameParts) |->
                IF self.nameParts[i].name \in DOMAIN inPartsDict
                THEN inPartsDict[self.nameParts[i].name] ELSE << >>]
        newName == _combine(combinedNameArray, inFilChar)
    IN set_index_padding_num(self, newName, self.paddingNum)

\* Naming.get_index_as_digit: Python returns the int, or False when the name
\* has no index; False compares equal to 0, so val is 0 then
get_index_as_digit(self, inStr) ==
    LET indexStr == get_name(self, "Index", inStr)
    IN IF indexStr # << >> THEN [isFalse |-> FALSE, val |-> int(indexStr)]
       ELSE [isFalse |-> TRUE, val |-> 0]

\* the new index token when an empty Index slot counts as 0
IncreasedIndexStr_from_zero(indexStr, inAmount, paddingNum) ==
    LET sum == (IF indexStr = << >> THEN 0 ELSE int(indexStr)) + inAmount
    IN FormatZeroPadded(IF sum < 0 THEN 0 ELSE sum,
                        IF indexStr = << >> THEN paddingNum ELSE Len(indexStr))

\* Naming.increase_index: the new index token for the token found in the
\* Index slot ("" when the name has no index: the amount is added to -1 and
\* the width is paddingNum)
IncreasedIndexStr(indexStr, inAmount, paddingNum) ==
    LET indexPaddingNum == IF indexStr = << >> THEN paddingNum ELSE Len(indexStr)
        parsed == IF indexStr = << >> THEN -1 ELSE int(indexStr)
        sum == parsed + inAmount
        indexNum == IF sum < 0 THEN 0 ELSE sum
    IN FormatZeroPadded(indexNum, indexPaddingNum)

\* Naming.increase_index: newName, the array with the new index token joined
IncreasedName(self, nameArray, filChar, indexIndex, inAmount) ==
    _combine([nameArray EXCEPT ![indexIndex + 1] =
                  IncreasedIndexStr(nameArray[indexIndex + 1], inAmount, self.paddingNum)],
             filChar)

\* Naming.increase_index (for a schema that has an "Index" part the body of
\* "if indexIndex >= 0" runs; otherwise the name is returned as is); it ends
\* with "return self.set_index_padding_num(newName)"
increase_index(self, inStr, inAmount) ==
    IF get_name_part_index(self, "Index") >= 0
    THEN set_index_padding_num(
             self,
             IncreasedName(self, convert_name_to_array(self, inStr), _get_filtering_char(inStr),
                           get_name_part_index(self, "Index"), inAmount),
             self.paddingNum)
    ELSE inStr

\* sort_by_index with a name that has no index sorted before every index
IndexSortingKey_missing_first(self, name) ==
    IF get_index_as_digit(self, name).isFalse THEN -1
    ELSE get_index_as_digit(self, name).val

\* Naming.sort_by_index: IndexSorting.newIndex of a name, 0 when
\* get_index_as_digit returns False
IndexSortingKey(self, name) ==
    IF get_index_as_digit(self, name).isFalse THEN 0
    ELSE get_index_as_digit(self, name).val

\* the newIndex fields of structArray, in the order of inNameArray
NewIndexes(self, inNameArray) ==
    [i \in 1..Len(inNameArray) |-> IndexSortingKey(self, inNameArray[i])]

\* the number of elements of sorted whose newIndex is not larger than that
\* of element i
NotLarger(newIndexes, sorted, i) ==
    Cardinality({j \in 1..Len(sorted) : newIndexes[sorted[j]] <= newIndexes[i]})

InsertAt(sorted, k, i) == SubSeq(sorted, 1, k) \o <<i>> \o SubSeq(sorted, k + 1, Len(sorted))

\* list.sort(key=lambda x: x.newIndex) one element at a time: the oriIndex
\* fields of the first n elements in sorted order, element n going behind
\* every element whose newIndex is not larger
RECURSIVE SortedOriIndexes(_, _)
SortedOriIndexes(newIndexes, n) ==
    IF n = 0 THEN << >>
    ELSE InsertAt(SortedOriIndexes(newIndexes, n - 1),
                  NotLarger(newIndexes, SortedOriIndexes(newIndexes, n - 1), n), n)

\* the names read back in the order of the sorted oriIndex fields
ReadBack(inNameArray, oriIndexes) ==
    [k \in 1..Len(oriIndexes) |-> inNameArray[oriIndexes[k]]]

\* Naming.sort_by_index
sort_by_index(self, inNameArray) ==
    IF inNameArray = << >> THEN << >>
    ELSE ReadBack(inNameArray,
                  SortedOriIndexes(NewIndexes(self, inNameArray), Len(inNameArray)))

\* Naming.gen_mirroring_name: the loop over the parts from position i on
RECURSIVE MirrorScan(_, _, _, _)
MirrorScan(self, inStr, nameArray, i) ==
    IF i > Len(self.nameParts) THEN nameArray
    ELSE LET part == self.nameParts[i]
             partIndex == get_name_part_index(self, part.name)
             foundName == get_name(self, part.name, inStr)
             opositeName == get_most_different_weight_value(part, foundName)
         IN IF (part.type # "REALNAME" \/ part.type # "INDEX") /\ part.isDirection
               /\ opositeName # << >> /\ foundName # opositeName
            THEN MirrorScan(self, inStr, [nameArray EXCEPT ![partIndex + 1] = opositeName], i + 1)
            ELSE MirrorScan(self, inStr, nameArray, i + 1)

\* gen_mirroring_name joining with the default delimiter of _combine
gen_mirroring_name_default_delimiter(self, inStr) ==
    _combine(MirrorScan(self, inStr, convert_name_to_array(self, inStr), 1), <<" ">>)

\* gen_mirroring_name putting the first declared value in every direction
\* part that is extracted, whatever the weights
gen_mirroring_name_first_value(self, inStr) ==
    _combine([i \in 1..Len(self.nameParts) |->
                 IF self.nameParts[i].isDirection
                    /\ convert_name_to_array(self, inStr)[i] # << >>
                 THEN self.nameParts[i].predefinedValues[1]
                 ELSE convert_name_to_array(self, inStr)[i]],
             _get_filtering_char(inStr))

\* Naming.gen_mirroring_name
gen_mirroring_name(self, inStr) ==
    _combine(MirrorScan(self, inStr, convert_name_to_array(self, inStr), 1),
             _get_filtering_char(inStr))

(***************************************************************************)
(* Naming: structural edits (naming.py 681-729, 966-1023)                  *)
(***************************************************************************)
\* lst[i] = v for a Python index i (a negative i counts from the end)
SetItem(lst, i, v) ==
    [lst EXCEPT ![IF i >= 0 THEN i + 1 ELSE Len(lst) + i + 1] = v]

\* lst[i] for a Python index i
GetItem(lst, i) == lst[IF i >= 0 THEN i + 1 ELSE Len(lst) + i + 1]

\* nameArray[partIndex] = inPrefix + nameArray[partIndex]
PrefixedAt(nameArray, partIndex, inPrefix) ==
    SetItem(nameArray, partIndex, inPrefix \o GetItem(nameArray, partIndex))

\* nameArray[partIndex] = nameArray[partIndex] + inSuffix
SuffixedAt(nameArray, partIndex, inSuffix) ==
    SetItem(nameArray, partIndex, GetItem(nameArray, partIndex) \o inSuffix)

\* "if partIndex >= 0: nameArray[partIndex] = inNewName"
SetKnown(nameArray, partIndex, inNewName) ==
    IF partIndex >= 0 THEN SetItem(nameArray, partIndex, inNewName) ELSE nameArray

\* Naming.add_prefix_to_name_part: partIndex is not tested, so for a part
\* the schema lacks nameArray[-1], the last slot, is written
add_prefix_to_name_part(self, inPart, inStr, inPrefix) ==
    IF inPrefix = << >> THEN inStr
    ELSE _combine(PrefixedAt(convert_name_to_array(self, inStr),
                             get_name_part_index(self, inPart), inPrefix),
                  _get_filtering_char(inStr))

\* Naming.add_suffix_to_name_part
add_suffix_to_name_part(self, inPart, inStr, inSuffix) ==
    IF inSuffix = << >> THEN inStr
    ELSE _combine(SuffixedAt(convert_name_to_array(self, inStr),
                             get_name_part_index(self, inPart), inSuffix),
                  _get_filtering_char(inStr))

\* Naming.replace_name_part
replace_name_part(self, inPart, inStr, inNewName) ==
    set_index_padding_num(
        self,
        _combine(SetKnown(convert_name_to_array(self, inStr),
                          get_name_part_index(self, inPart), inNewName),
                 _get_filtering_char(inStr)),
        self.paddingNum)

\* Naming.remove_name_part
remove_name_part(self, inPart, inStr) ==
    set_index_padding_num(
        self,
        _combine(SetKnown(convert_name_to_array(self, inStr),
                          get_name_part_index(self, inPart), << >>),
                 _get_filtering_char(inStr)),
        self.paddingNum)

(***************************************************************************)
(* State                                                                   *)
(***************************************************************************)
VARIABLES
    nameParts,    \* Naming._nameParts: the schema, a list of NamePart objects
    paddingNum,   \* Naming._paddingNum
    input,        \* the argument of the first call of the behaviour
    log,          \* the calls made so far: operation, arguments, result
    part,         \* the fields of one NamePart object
    constructed,  \* TRUE when __init__ returned, so that a caller holds the object
    call          \* the last call on the object: operation, arguments, result

namingVars == <<nameParts, paddingNum, input, log>>

partVars == <<part, constructed, call>>

vars == <<nameParts, paddingNum, input, log, part, constructed, call>>

(***************************************************************************)
(* Inputs                                                                  *)
(***************************************************************************)
\* Naming._paddingNum as __init__ sets it
PaddingNum == 2

\* characters of the raw name strings: two upper-case letters (the Side
\* values), a lower-case letter, two digits and the underscore
Alphabet == {"L", "R", "a", "0", "1", "_"}

\* longer names, and names delimited by spaces
ExtraNames ==
    { <<"L", "_", "a", "_", "0", "1">>, <<"R", "_", "a", "_", "1">>, <<"L", " ", "a", " ", "0", "1">>,
      <<"L", " ", "a">>, <<"a", " ", "1">>, <<"0", " ", "a">>, <<" ", "L">>, <<"a", " ", " ", "a">>,
      <<"L", "a", "0", "1">>, <<"a", "_", "0", "0", "1">>, <<"a", "_", " ", "1">> }

StrInputs == SeqUpTo(Alphabet, MaxLen) \cup ExtraNames

\* the schema of the example scenarios: Side (PREFIX, values L and R, the
\* direction part), RealName, Index; the objects are those NamePart builds
ExampleNameParts ==
    << NamePart__init__("Side", "PREFIX", << <<"L">>, <<"R">> >>, NoneArg, TRUE, NoneArg).obj,
       NamePart__init__("RealName", "REALNAME", << >>, ListArg(<< >>), FALSE, NoneArg).obj,
       NamePart__init__("Index", "INDEX", << >>, ListArg(<< >>), FALSE, NoneArg).obj >>

SideInputs == { <<"L">>, <<"R">> }

\* RealName values: free text, with and without delimiter characters
RealNameInputs ==
    { << >>, <<"a">>, <<"L">>, <<"R">>, <<"0">>, <<"0", "1">>, <<"a", "L">>, <<"a", "1">>,
      <<"_">>, <<" ">>, <<"a", "_", "a">>, <<"a", " ", "a">>, <<"0", "1", "_", "a">> }

\* Index values: digit strings of one, two and three characters
IndexInputs == { <<"0">>, <<"1">>, <<"0", "1">>, <<"1", "0">>, <<"0", "0", "1">> }

DictInputs ==
    { [Side |-> s, RealName |-> r, Index |-> i] : s \in SideInputs, r \in RealNameInputs, i \in IndexInputs }

\* the delimiters handed to combine
FilChars == { <<"_">>, <<" ">>, << >> }

(***************************************************************************)
(* Values passed between calls                                             *)
(***************************************************************************)
NoDict == [k \in {} |-> << >>]

NoDigit == [isFalse |-> TRUE, val |-> 0]

StrVal(s) == [kind |-> "str", str |-> s, dict |-> NoDict, digit |-> NoDigit]

DictVal(d) == [kind |-> "dict", str |-> << >>, dict |-> d, digit |-> NoDigit]

DigitVal(n) == [kind |-> "digit", str |-> << >>, dict |-> NoDict, digit |-> n]

\* the outcome of a call that raised the exception e
RaisedVal(e) == [kind |-> "raised", str |-> e, dict |-> NoDict, digit |-> NoDigit]

\* the outcome of a call that returns a str, or raises AttributeError
StrOrRaised(r) == IF r = AttributeError THEN RaisedVal(r) ELSE StrVal(r)

\* the Naming instance
Self == [nameParts |-> nameParts, paddingNum |-> paddingNum]

\* the value the next call is applied to
Cur == IF log = << >> THEN input ELSE log[Len(log)].res

\* the value the k-th call was applied to
ArgOf(k) == IF k = 1 THEN input ELSE log[k - 1].res

\* number of operations applied to names so far (combine takes a dict)
NameCalls == Len(SelectSeq(log, LAMBDA c : c.op # "combine"))

Logged(op, num, chr, res) == log' = Append(log, [op |-> op, num |-> num, chr |-> chr, res |-> res])

\* a NamePart that no call has touched (the object of the Naming behaviours)
IdlePart == NamePart__init__("RealName", "REALNAME", << >>, NoneArg, FALSE, NoneArg).obj

IdleCall == [op |-> "__init__", value |-> << >>, description |-> << >>,
             koreanDescription |-> << >>, ret |-> "None"]

(***************************************************************************)
(* Naming behaviours: a name or a mapping is given, operations follow      *)
(***************************************************************************)
NamingInit ==
    /\ nameParts = ExampleNameParts
    /\ paddingNum = PaddingNum
    /\ input \in {StrVal(s) : s \in StrInputs} \cup {DictVal(d) : d \in DictInputs}
    /\ log = << >>
    /\ part = IdlePart
    /\ constructed = TRUE
    /\ call = IdleCall

\* combine(d, c): on the given mapping with any delimiter; on a mapping that
\* convert_to_dictionary produced, with the delimiter of the decomposed name
\* (as convert_to_description calls it)
Combine ==
    /\ Cur.kind = "dict"
    /\ \E c \in FilChars :
          /\ log # << >> => c = _get_filtering_char(ArgOf(Len(log)).str)
          /\ Logged("combine", 0, c, StrVal(combine(Self, Cur.dict, c)))
    /\ UNCHANGED <<nameParts, paddingNum, input>>
    /\ UNCHANGED partVars

ConvertToDictionary ==
    /\ Cur.kind = "str"
    /\ NameCalls < MaxCalls
    /\ Logged("convert_to_dictionary", 0, << >>, DictVal(convert_to_dictionary(Self, Cur.str)))
    /\ UNCHANGED <<nameParts, paddingNum, input>>
    /\ UNCHANGED partVars

SetIndexPaddingNum ==
    /\ Cur.kind = "str"
    /\ NameCalls < MaxCalls
    /\ \E w \in 0..MaxPad :
          Logged("set_index_padding_num", w, << >>, StrVal(set_index_padding_num(Self, Cur.str, w)))
    /\ UNCHANGED <<nameParts, paddingNum, input>>
    /\ UNCHANGED partVars

IncreaseIndex ==
    /\ Cur.kind = "str"
    /\ NameCalls < MaxCalls
    /\ \E k \in (-MaxAmount)..MaxAmount :
          Logged("increase_index", k, << >>, StrVal(increase_index(Self, Cur.str, k)))
    /\ UNCHANGED <<nameParts, paddingNum, input>>
    /\ UNCHANGED partVars

GetIndexAsDigit ==
    /\ Cur.kind = "str"
    /\ NameCalls < MaxCalls
    /\ Logged("get_index_as_digit", 0, << >>, DigitVal(get_index_as_digit(Self, Cur.str)))
    /\ UNCHANGED <<nameParts, paddingNum, input>>
    /\ UNCHANGED partVars

GenMirroringName ==
    /\ Cur.kind = "str"
    /\ NameCalls < MaxCalls
    /\ Logged("gen_mirroring_name", 0, << >>, StrVal(gen_mirroring_name(Self, Cur.str)))
    /\ UNCHANGED <<nameParts, paddingNum, input>>
    /\ UNCHANGED partVars

\* decomposition and reconstruction
Next == Combine \/ ConvertToDictionary

Spec == NamingInit /\ [][Next]_vars

\* index padding
PaddingNext == Combine \/ SetIndexPaddingNum

PaddingSpec == NamingInit /\ [][PaddingNext]_vars

\* index arithmetic
IndexNext == Combine \/ IncreaseIndex \/ GetIndexAsDigit

IndexSpec == NamingInit /\ [][IndexNext]_vars

\* mirroring
MirrorNext == Combine \/ GenMirroringName

MirrorSpec == NamingInit /\ [][MirrorNext]_vars

\* the part names asked for: the parts of the schema, and a name it lacks
PartNames == {"Side", "RealName", "Index", "Nub"}

LoggedName(op, name, res) ==
    log' = Append(log, [op |-> op, num |-> 0, chr |-> << >>, res |-> res, name |-> name])

GetName ==
    /\ Cur.kind = "str"
    /\ NameCalls < MaxCalls
    /\ \E n \in PartNames :
          LoggedName("get_name", n, StrOrRaised(get_name(Self, n, Cur.str)))
    /\ UNCHANGED <<nameParts, paddingNum, input>>
    /\ UNCHANGED partVars

PickName ==
    /\ Cur.kind = "str"
    /\ NameCalls < MaxCalls
    /\ \E n \in PartNames :
          LoggedName("pick_name", n, StrVal(pick_name(Self, n, Cur.str)))
    /\ UNCHANGED <<nameParts, paddingNum, input>>
    /\ UNCHANGED partVars

GetRealName ==
    /\ Cur.kind = "str"
    /\ NameCalls < MaxCalls
    /\ Logged("get_RealName", 0, << >>, StrVal(get_RealName(Self, Cur.str)))
    /\ UNCHANGED <<nameParts, paddingNum, input>>
    /\ UNCHANGED partVars

\* extraction of single parts
ExtractNext == Combine \/ GetName \/ PickName \/ GetRealName

ExtractSpec == NamingInit /\ [][ExtractNext]_vars

\* mappings handed to combine: any subset of the parts, and a key that names
\* no part of the schema
CombineKeys == {"Side", "RealName", "Index", "Nub"}

ValuesOfKey(k) ==
    CASE k = "Side" -> SideInputs
      [] k = "RealName" -> RealNameInputs
      [] k = "Index" -> IndexInputs
      [] k = "Nub" -> { <<"a">> }

CombineInputs ==
    UNION { {d \in [K -> SideInputs \cup RealNameInputs \cup IndexInputs] :
                \A k \in K : d[k] \in ValuesOfKey(k)} : K \in SUBSET CombineKeys }

CombineInit ==
    /\ nameParts = ExampleNameParts
    /\ paddingNum = PaddingNum
    /\ input \in {DictVal(d) : d \in CombineInputs}
    /\ log = << >>
    /\ part = IdlePart
    /\ constructed = TRUE
    /\ call = IdleCall

\* construction of names from mappings
CombineNext == Combine

CombineSpec == CombineInit /\ [][CombineNext]_vars

\* behaviours that start from a name given as a string or from a mapping
\* over some of the parts
MappingOrNameInit ==
    /\ nameParts = ExampleNameParts
    /\ paddingNum = PaddingNum
    /\ input \in {DictVal(d) : d \in CombineInputs} \cup {StrVal(s) : s \in StrInputs}
    /\ log = << >>
    /\ part = IdlePart
    /\ constructed = TRUE
    /\ call = IdleCall

\* mirroring of such names
DirectionNext == Combine \/ GenMirroringName

DirectionSpec == MappingOrNameInit /\ [][DirectionNext]_vars

\* index padding of such names
RepadNext == Combine \/ SetIndexPaddingNum

RepadSpec == MappingOrNameInit /\ [][RepadNext]_vars

\* the names handed to sort_by_index: without an index, and with the
\* indices 0, 1 (in three spellings) and 10
SortNames ==
    { <<"a">>, <<"a", "_", "0">>, <<"a", "_", "1">>, <<"L", "_", "0", "1">>,
      <<"a", "_", "1", "0">>, <<"R", "_", "a", "_", "0", "0", "1">> }

SortInputs == SeqUpTo(SortNames, MaxNames)

ListVal(l) == [kind |-> "list", list |-> l]

SortInit ==
    /\ nameParts = ExampleNameParts
    /\ paddingNum = PaddingNum
    /\ input \in {ListVal(l) : l \in SortInputs}
    /\ log = << >>
    /\ part = IdlePart
    /\ constructed = TRUE
    /\ call = IdleCall

SortByIndex ==
    /\ Cur.kind = "list"
    /\ NameCalls < MaxCalls
    /\ Logged("sort_by_index", 0, << >>, ListVal(sort_by_index(Self, Cur.list)))
    /\ UNCHANGED <<nameParts, paddingNum, input>>
    /\ UNCHANGED partVars

\* sorting of lists of names
SortNext == SortByIndex

SortSpec == SortInit /\ [][SortNext]_vars

\* the characters of the strings handed to the tokenizer: a lower-case
\* letter, an upper-case letter, a digit, both delimiters and the line feed
SplitChars == {"a", "B", "1", " ", "_", Newline}

SplitInputs == SeqUpTo(SplitChars, MaxLen + 1)

SplitInit ==
    /\ nameParts = ExampleNameParts
    /\ paddingNum = PaddingNum
    /\ input \in {StrVal(s) : s \in SplitInputs}
    /\ log = << >>
    /\ part = IdlePart
    /\ constructed = TRUE
    /\ call = IdleCall

SplitToArray ==
    /\ log = << >>
    /\ Logged("_split_to_array", 0, << >>, ListVal(_split_to_array(input.str)))
    /\ UNCHANGED <<nameParts, paddingNum, input>>
    /\ UNCHANGED partVars

\* tokenization of strings
SplitNext == SplitToArray

SplitSpec == SplitInit /\ [][SplitNext]_vars

\* the part names handed to the structural edits: the parts of the schema
\* and a name the schema lacks
EditParts == {"Side", "RealName", "Index", "Nub"}

\* the new values handed to replace_name_part
EditValues == { <<"R">>, <<"b">>, <<"2">> }

\* the prefixes and suffixes handed to add_prefix_to_name_part and
\* add_suffix_to_name_part
EditAffixes == { << >>, <<"X">> }

\* the log holds no structural edit yet
NotEdited == \A k \in 1..Len(log) : log[k].op = "combine"

Edited(op, name, chr, res) ==
    log' = Append(log, [op |-> op, num |-> 0, chr |-> chr, res |-> res, name |-> name])

RemoveNamePart ==
    /\ Cur.kind = "str" /\ NotEdited
    /\ \E p \in EditParts :
          Edited("remove_name_part", p, << >>, StrVal(remove_name_part(Self, p, Cur.str)))
    /\ UNCHANGED <<nameParts, paddingNum, input>>
    /\ UNCHANGED partVars

ReplaceNamePart ==
    /\ Cur.kind = "str" /\ NotEdited
    /\ \E p \in EditParts, v \in EditValues :
          Edited("replace_name_part", p, v, StrVal(replace_name_part(Self, p, Cur.str, v)))
    /\ UNCHANGED <<nameParts, paddingNum, input>>
    /\ UNCHANGED partVars

AddPrefixToNamePart ==
    /\ Cur.kind = "str" /\ NotEdited
    /\ \E p \in EditParts, v \in EditAffixes :
          Edited("add_prefix_to_name_part", p, v,
                 StrVal(add_prefix_to_name_part(Self, p, Cur.str, v)))
    /\ UNCHANGED <<nameParts, paddingNum, input>>
    /\ UNCHANGED partVars

AddSuffixToNamePart ==
    /\ Cur.kind = "str" /\ NotEdited
    /\ \E p \in EditParts, v \in EditAffixes :
          Edited("add_suffix_to_name_part", p, v,
                 StrVal(add_suffix_to_name_part(Self, p, Cur.str, v)))
    /\ UNCHANGED <<nameParts, paddingNum, input>>
    /\ UNCHANGED partVars

\* structural edits of names given as strings or built from mappings
EditNext ==
    Combine \/ RemoveNamePart \/ ReplaceNamePart \/ AddPrefixToNamePart \/ AddSuffixToNamePart

EditSpec == MappingOrNameInit /\ [][EditNext]_vars

\* the threads that call into one Naming instance
Threads == {1, 2}

\* a call of a Naming operation on a name: operation and arguments
CallOf(op, name, s, num, chr, dict, list) ==
    [op |-> op, name |-> name, str |-> s, num |-> num, chr |-> chr, dict |-> dict, list |-> list]

ThreadName == <<"L", "_", "a", "_", "1">>

\* one call of each operation (get_name also for a part the schema lacks)
ThreadCalls ==
    { CallOf("get_name", "Side", ThreadName, 0, << >>, NoDict, << >>),
      CallOf("get_name", "Nub", ThreadName, 0, << >>, NoDict, << >>),
      CallOf("pick_name", "Side", ThreadName, 0, << >>, NoDict, << >>),
      CallOf("get_RealName", "", ThreadName, 0, << >>, NoDict, << >>),
      CallOf("combine", "", << >>, 0, <<"_">>, [Side |-> <<"R">>, Index |-> <<"1">>], << >>),
      CallOf("convert_to_dictionary", "", ThreadName, 0, << >>, NoDict, << >>),
      CallOf("set_index_padding_num", "", ThreadName, 1, << >>, NoDict, << >>),
      CallOf("increase_index", "", ThreadName, 1, << >>, NoDict, << >>),
      CallOf("gen_mirroring_name", "", ThreadName, 0, << >>, NoDict, << >>),
      CallOf("replace_name_part", "Side", ThreadName, 0, <<"R">>, NoDict, << >>),
      CallOf("remove_name_part", "Side", ThreadName, 0, << >>, NoDict, << >>),
      CallOf("add_prefix_to_name_part", "RealName", ThreadName, 0, <<"a">>, NoDict, << >>),
      CallOf("add_suffix_to_name_part", "RealName", ThreadName, 0, <<"a">>, NoDict, << >>),
      CallOf("sort_by_index", "", << >>, 0, << >>, NoDict, << ThreadName, <<"a">> >>) }

\* what the call c returns on the instance self
ReturnOf(self, c) ==
    CASE c.op = "get_name" -> StrOrRaised(get_name(self, c.name, c.str))
      [] c.op = "pick_name" -> StrVal(pick_name(self, c.name, c.str))
      [] c.op = "get_RealName" -> StrVal(get_RealName(self, c.str))
      [] c.op = "combine" -> StrVal(combine(self, c.dict, c.chr))
      [] c.op = "convert_to_dictionary" -> DictVal(convert_to_dictionary(self, c.str))
      [] c.op = "set_index_padding_num" -> StrVal(set_index_padding_num(self, c.str, c.num))
      [] c.op = "increase_index" -> StrVal(increase_index(self, c.str, c.num))
      [] c.op = "gen_mirroring_name" -> StrVal(gen_mirroring_name(self, c.str))
      [] c.op = "replace_name_part" -> StrVal(replace_name_part(self, c.name, c.str, c.chr))
      [] c.op = "remove_name_part" -> StrVal(remove_name_part(self, c.name, c.str))
      [] c.op = "add_prefix_to_name_part" -> StrVal(add_prefix_to_name_part(self, c.name, c.str, c.chr))
      [] c.op = "add_suffix_to_name_part" -> StrVal(add_suffix_to_name_part(self, c.name, c.str, c.chr))
      [] c.op = "sort_by_index" -> ListVal(sort_by_index(self, c.list))

\* an instance whose set_index_padding_num keeps the width it was given
FieldsAfter_width_stored(self, c) ==
    IF c.op = "set_index_padding_num" THEN [self EXCEPT !.paddingNum = c.num] ELSE self

\* the fields of the instance when the call c returns: none of these methods
\* assigns _nameParts or _paddingNum or calls a method of a NamePart that
\* changes it (pick_name works on a copy of the value list)
FieldsAfter(self, c) == self

\* the calls of thread t that have not returned
Pending(t) == {i \in 1..Len(log) : log[i].thread = t /\ ~log[i].done}

ThreadsInit ==
    /\ nameParts = ExampleNameParts
    /\ paddingNum = PaddingNum
    /\ input = StrVal(<< >>)
    /\ log = << >>
    /\ part = IdlePart
    /\ constructed = TRUE
    /\ call = IdleCall

\* thread t enters a method
ThreadCall(t) ==
    /\ Pending(t) = {}
    /\ Len(log) < MaxCalls
    /\ \E c \in ThreadCalls :
          log' = Append(log, [thread |-> t, call |-> c, done |-> FALSE, res |-> StrVal(<< >>)])
    /\ UNCHANGED <<nameParts, paddingNum, input>>
    /\ UNCHANGED partVars

\* the method thread t is in runs on the instance as it is and returns
ThreadReturn(t) ==
    /\ Pending(t) # {}
    /\ \E i \in Pending(t) :
          /\ log' = [log EXCEPT ![i].done = TRUE, ![i].res = ReturnOf(Self, log[i].call)]
          /\ nameParts' = FieldsAfter(Self, log[i].call).nameParts
          /\ paddingNum' = FieldsAfter(Self, log[i].call).paddingNum
    /\ UNCHANGED input
    /\ UNCHANGED partVars

\* calls from several threads, interleaved
ThreadsNext == \E t \in Threads : ThreadCall(t) \/ ThreadReturn(t)

ThreadsSpec == ThreadsInit /\ [][ThreadsNext]_vars

\* schemas of a REALNAME part and an INDEX part, in both orders, under the
\* names of the default schema and under other names
ScanPart(name, type) == NamePart__init__(name, type, << >>, NoneArg, FALSE, NoneArg).obj

ScanSchemas ==
    { << ScanPart("RealName", "REALNAME"), ScanPart("Index", "INDEX") >>,
      << ScanPart("Index", "INDEX"), ScanPart("RealName", "REALNAME") >>,
      << ScanPart("Base", "REALNAME"), ScanPart("Num", "INDEX") >>,
      << ScanPart("Num", "INDEX"), ScanPart("Base", "REALNAME") >> }

\* the position (from 1) of the first part of the given type
TypedIndex(self, type) ==
    CHOOSE i \in 1..Len(self.nameParts) :
        /\ self.nameParts[i].type = type
        /\ \A j \in 1..(i - 1) : self.nameParts[j].type # type

ScanInit ==
    /\ nameParts \in ScanSchemas
    /\ paddingNum = PaddingNum
    /\ input \in {StrVal(s) : s \in StrInputs}
    /\ log = << >>
    /\ part = IdlePart
    /\ constructed = TRUE
    /\ call = IdleCall

\* pick_name for the INDEX part of the schema
PickIndex ==
    /\ log = << >>
    /\ LoggedName("pick_name", nameParts[TypedIndex(Self, "INDEX")].name,
                  StrVal(pick_name(Self, nameParts[TypedIndex(Self, "INDEX")].name, input.str)))
    /\ UNCHANGED <<nameParts, paddingNum, input>>
    /\ UNCHANGED partVars

\* get_name for the INDEX part of the schema
GetIndex ==
    /\ log = << >>
    /\ LoggedName("get_name", nameParts[TypedIndex(Self, "INDEX")].name,
                  StrOrRaised(get_name(Self, nameParts[TypedIndex(Self, "INDEX")].name, input.str)))
    /\ UNCHANGED <<nameParts, paddingNum, input>>
    /\ UNCHANGED partVars

\* extraction of the index in schemas of either order and naming
ScanNext == PickIndex \/ GetIndex

ScanSpec == ScanInit /\ [][ScanNext]_vars

\* a schema with two PREFIX parts before and two SUFFIX parts behind
\* RealName and Index
AffixNameParts ==
    << NamePart__init__("Base", "PREFIX", << <<"B">> >>, NoneArg, FALSE, NoneArg).obj,
       NamePart__init__("Side", "PREFIX", << <<"L">>, <<"R">> >>, NoneArg, TRUE, NoneArg).obj,
       NamePart__init__("RealName", "REALNAME", << >>, ListArg(<< >>), FALSE, NoneArg).obj,
       NamePart__init__("Index", "INDEX", << >>, ListArg(<< >>), FALSE, NoneArg).obj,
       NamePart__init__("Front", "SUFFIX", << <<"F">> >>, NoneArg, FALSE, NoneArg).obj,
       NamePart__init__("Nub", "SUFFIX", << <<"N">> >>, NoneArg, FALSE, NoneArg).obj >>

\* tokens: values of the affix parts, free text, a digit token
AffixTokens == { <<"B">>, <<"L">>, <<"a">>, <<"1">>, <<"F">>, <<"N">> }

\* names of one to MaxLen tokens joined with "_"
AffixNames == { join(ts, <<"_">>) : ts \in SeqUpTo(AffixTokens, MaxLen) \ { << >> } }

AffixInit ==
    /\ nameParts = AffixNameParts
    /\ paddingNum = PaddingNum
    /\ input \in {StrVal(s) : s \in AffixNames}
    /\ log = << >>
    /\ part = IdlePart
    /\ constructed = TRUE
    /\ call = IdleCall

\* get_name for a PREFIX or SUFFIX part
GetAffix ==
    /\ log = << >>
    /\ \E n \in {"Base", "Side", "Front", "Nub"} :
          LoggedName("get_name", n, StrOrRaised(get_name(Self, n, input.str)))
    /\ UNCHANGED <<nameParts, paddingNum, input>>
    /\ UNCHANGED partVars

\* get_RealName on the name
GetAffixRealName ==
    /\ log = << >>
    /\ LoggedName("get_RealName", "", StrVal(get_RealName(Self, input.str)))
    /\ UNCHANGED <<nameParts, paddingNum, input>>
    /\ UNCHANGED partVars

\* extraction of affix parts
AffixNext == GetAffix \/ GetAffixRealName

AffixSpec == AffixInit /\ [][AffixNext]_vars

(***************************************************************************)
(* NamePart behaviours: an object is constructed, calls on it follow       *)
(***************************************************************************)
\* values and labels handed to the object
PartValues == { <<"L">>, <<"R">> }

Descriptions == { << >>, <<"d">> }

KoreanDescriptions == { << >>, <<"k">> }

\* description lists: None, empty, shorter and longer than any value list
DescriptionLists ==
    { NoneArg, ListArg(<< >>), ListArg(<< <<"d">> >>), ListArg(Repeat(<<"d">>, MaxValues + 1)) }

KoreanDescriptionLists ==
    { NoneArg, ListArg(<< >>), ListArg(<< <<"k">> >>), ListArg(Repeat(<<"k">>, MaxValues + 1)) }

Called(op, value, description, koreanDescription, ret) ==
    call' = [op |-> op, value |-> value, description |-> description,
             koreanDescription |-> koreanDescription, ret |-> ret]

\* NamePart(...) and NamePart.from_dict(...): the state after construction
PartInit ==
    /\ \E inType \in NamePartType, vals \in SeqUpTo(PartValues, MaxValues),
          descs \in DescriptionLists, kdescs \in KoreanDescriptionLists, viaDict \in BOOLEAN :
          LET r == IF viaDict
                   THEN from_dict("Side", inType, vals, descs.list, FALSE, kdescs.list)
                   ELSE NamePart__init__("Side", inType, vals, descs, FALSE, kdescs)
          IN /\ part = r.obj
             /\ constructed = ~r.raised
             /\ call = [IdleCall EXCEPT !.ret = IF r.raised THEN "TypeError" ELSE "None"]
    /\ nameParts = ExampleNameParts
    /\ paddingNum = PaddingNum
    /\ input = StrVal(<< >>)
    /\ log = << >>

SetType ==
    /\ constructed
    /\ \E inType \in NamePartType :
          LET r == set_type(part, inType)
          IN part' = r.obj /\ Called("set_type", << >>, << >>, << >>, r.ret)
    /\ UNCHANGED constructed
    /\ UNCHANGED namingVars

AddPredefinedValue ==
    /\ constructed
    /\ \E v \in PartValues, d \in Descriptions, k \in KoreanDescriptions :
          LET r == add_predefined_value(part, v, d, k)
          IN part' = r.obj /\ Called("add_predefined_value", v, d, k, r.ret)
    /\ UNCHANGED constructed
    /\ UNCHANGED namingVars

RemovePredefinedValue ==
    /\ constructed
    /\ \E v \in PartValues :
          LET r == remove_predefined_value(part, v)
          IN part' = r.obj /\ Called("remove_predefined_value", v, << >>, << >>, r.ret)
    /\ UNCHANGED constructed
    /\ UNCHANGED namingVars

SetPredefinedValues ==
    /\ constructed
    /\ \E vals \in SeqUpTo(PartValues, MaxValues),
          descs \in DescriptionLists, kdescs \in KoreanDescriptionLists :
          LET r == set_predefined_values(part, vals, descs, kdescs)
          IN part' = r.obj /\ Called("set_predefined_values", << >>, << >>, << >>, r.ret)
    /\ UNCHANGED constructed
    /\ UNCHANGED namingVars

ClearPredefinedValues ==
    /\ constructed
    /\ LET r == clear_predefined_values(part)
       IN part' = r.obj /\ Called("clear_predefined_values", << >>, << >>, << >>, r.ret)
    /\ UNCHANGED constructed
    /\ UNCHANGED namingVars

SetDescription ==
    /\ constructed
    /\ \E v \in PartValues, d \in Descriptions :
          LET r == set_description(part, v, d)
          IN part' = r.obj /\ Called("set_description", v, d, << >>, r.ret)
    /\ UNCHANGED constructed
    /\ UNCHANGED namingVars

PartNext ==
    \/ SetType
    \/ AddPredefinedValue
    \/ RemovePredefinedValue
    \/ SetPredefinedValues
    \/ ClearPredefinedValues
    \/ SetDescription

PartSpec == PartInit /\ [][PartNext]_vars

\* the values handed to validate_value: predefined values, digit strings,
\* strings that mix letters and digits, the empty string, and strings with a
\* digit character outside 0-9
ValidateInputs ==
    PartValues \cup { << >>, <<"0">>, <<"1", "0">>, <<"a">>, <<"a", "1">>, <<"1", "a">>, <<"1", "_">>,
                      <<SuperscriptTwo>>, <<"1", SuperscriptTwo>> }

ValidateValue ==
    /\ constructed
    /\ \E v \in ValidateInputs :
          Called("validate_value", v, << >>, << >>,
                 IF validate_value(part, v) THEN "True" ELSE "False")
    /\ UNCHANGED <<part, constructed>>
    /\ UNCHANGED namingVars

\* validation against a part whose type and values change
ValidateNext == SetType \/ AddPredefinedValue \/ ClearPredefinedValues \/ ValidateValue

ValidateSpec == PartInit /\ [][ValidateNext]_vars

(***************************************************************************)
(* Properties                                                              *)
(***************************************************************************)
\* the k-th call of the behaviour was op
CallIs(k, op) == Len(log) >= k /\ log[k].op = op

\* two part -> value mappings agree, the Index values compared as numbers
SameMapping(a, b) ==
    /\ DOMAIN a = DOMAIN b
    /\ \A k \in DOMAIN a :
          IF k = "Index"
          THEN isdigit(a[k]) /\ isdigit(b[k]) /\ int(a[k]) = int(b[k])
          ELSE a[k] = b[k]

\* free text that holds no delimiter character (one token, or empty)
SingleToken(r) == ~Contains(r, " ") /\ ~Contains(r, "_")

\* the behaviour starts from a mapping and joins it with "_"
FromMapping == input.kind = "dict" /\ CallIs(1, "combine") /\ log[1].chr = <<"_">>

\* ... from a mapping whose RealName is a single token: a canonical name
FromValidMapping == FromMapping /\ SingleToken(input.dict.RealName)

\* C1 as stated: for every mapping d of valid values (RealName any free
\* text), convert_to_dictionary(combine(d, "_")) equals d, Index as a number
C1_AnyFreeText ==
    (FromMapping /\ CallIs(2, "convert_to_dictionary"))
        => SameMapping(log[2].res.dict, input.dict)

\* C1 amended: in the schema Side/RealName/Index, for every mapping d whose
\* RealName holds neither a space nor an underscore,
\* convert_to_dictionary(combine(d, "_")) equals d, Index compared as a number
C1_RoundTripFromMapping ==
    (FromValidMapping /\ CallIs(2, "convert_to_dictionary"))
        => SameMapping(log[2].res.dict, input.dict)

\* a mapping with a one-character index went through combine and back, and
\* came back with the index padded
C1_Witness ==
    /\ FromValidMapping /\ CallIs(2, "convert_to_dictionary")
    /\ input.dict.RealName # << >>
    /\ Len(input.dict.Index) = 1
    /\ Len(log[2].res.dict.Index) = PaddingNum
    /\ log[2].res.dict.RealName = input.dict.RealName

\* s uses at most one delimiter style
OneDelimiterStyle(s) == ~(Contains(s, " ") /\ Contains(s, "_"))

\* positions i..j of s hold a maximal run of digits
DigitRun(s, i, j) ==
    /\ i <= j
    /\ \A n \in i..j : s[n] \in DigitChars
    /\ (i = 1 \/ s[i - 1] \notin DigitChars)
    /\ (j = Len(s) \/ s[j + 1] \notin DigitChars)

\* r is s, or s with one digit token re-padded with zeros to w digits
SameUpToPadding(r, s, w) ==
    \/ r = s
    \/ \E i \in 1..Len(s), j \in 1..Len(s) :
          /\ DigitRun(s, i, j)
          /\ r = SubSeq(s, 1, i - 1) \o FormatZeroPadded(int(SubSeq(s, i, j)), w)
                    \o SubSeq(s, j + 1, Len(s))

\* C2 as stated: for every name s of one delimiter style,
\* combine(convert_to_dictionary(s), delimiter of s) is s up to index padding
C2_AnyName ==
    (input.kind = "str" /\ OneDelimiterStyle(input.str)
        /\ CallIs(1, "convert_to_dictionary") /\ CallIs(2, "combine"))
        => SameUpToPadding(log[2].res.str, input.str, paddingNum)

\* C2 amended: in the schema Side/RealName/Index, for every name s that
\* combine(d, "_") produced from a mapping d of valid values with a
\* single-token RealName, combine(convert_to_dictionary(s), delimiter of s) = s
C2_RoundTripFromName ==
    (FromValidMapping /\ CallIs(2, "convert_to_dictionary") /\ CallIs(3, "combine"))
        => log[3].res.str = log[1].res.str

\* a canonical name of three parts was decomposed and recombined
C2_Witness ==
    /\ FromValidMapping /\ CallIs(2, "convert_to_dictionary") /\ CallIs(3, "combine")
    /\ Len(_split_to_array(log[1].res.str)) = 3
    /\ log[2].res.dict.RealName # << >>
    /\ log[3].res.str = log[1].res.str

\* C3 as stated: for every name s and width w, padding twice equals padding once
C3_AnyName ==
    (input.kind = "str" /\ CallIs(1, "set_index_padding_num")
        /\ CallIs(2, "set_index_padding_num") /\ log[2].num = log[1].num)
        => log[2].res.str = log[1].res.str

\* C3 amended: in the schema Side/RealName/Index, for every name s that
\* combine(d, "_") produced from a mapping d of valid values with a
\* single-token RealName, and every width w,
\* set_index_padding_num(set_index_padding_num(s, w), w) = set_index_padding_num(s, w)
C3_IdempotentPadding ==
    (FromValidMapping /\ CallIs(2, "set_index_padding_num")
        /\ CallIs(3, "set_index_padding_num") /\ log[3].num = log[2].num)
        => log[3].res.str = log[2].res.str

\* a canonical name was re-padded to a width other than paddingNum, twice
C3_Witness ==
    /\ FromValidMapping /\ CallIs(2, "set_index_padding_num")
    /\ CallIs(3, "set_index_padding_num") /\ log[3].num = log[2].num
    /\ log[2].num # PaddingNum
    /\ log[2].res.str # log[1].res.str
    /\ log[3].res.str = log[2].res.str

Max(a, b) == IF a >= b THEN a ELSE b

\* C5: for every name s with an index token of width w and every k,
\* get_index_as_digit(increase_index(s, k)) = max(0, get_index_as_digit(s) + k)
\* and the index token of the result has w characters, more only when the
\* new number needs more than w digits
C5_IncreaseIndex ==
    (input.kind = "str" /\ get_name(Self, "Index", input.str) # << >>
        /\ CallIs(1, "increase_index") /\ CallIs(2, "get_index_as_digit"))
        => LET w == Len(get_name(Self, "Index", input.str))
               expected == Max(0, get_index_as_digit(Self, input.str).val + log[1].num)
           IN /\ log[2].res.digit.val = expected
              /\ Len(get_name(Self, "Index", log[1].res.str)) = Max(w, Len(str(expected)))

\* the four parallel sequences of the object
SameLengths(p) ==
    /\ Len(p.descriptions) = Len(p.predefinedValues)
    /\ Len(p.koreanDescriptions) = Len(p.predefinedValues)
    /\ Len(p.weights) = Len(p.predefinedValues)

\* C6: for a PREFIX or SUFFIX part, after construction and after every
\* operation, the operation completed and weights[i] = 5*(i+1) for every
\* position i of predefinedValues (1-based here: 5*i)
C6_PositionalWeights ==
    part.type \in {"PREFIX", "SUFFIX"}
        => /\ call.ret # "TypeError"
           /\ Len(part.weights) = Len(part.predefinedValues)
           /\ \A i \in 1..Len(part.weights) : part.weights[i] = 5 * i

\* C7: for a PREFIX or SUFFIX part that a caller holds, predefinedValues,
\* descriptions, koreanDescriptions and weights have the same length
C7_ParallelLengths ==
    (constructed /\ part.type \in {"PREFIX", "SUFFIX"}) => SameLengths(part)

\* C8: for a REALNAME or INDEX part, predefinedValues, descriptions,
\* koreanDescriptions and weights are empty in every reachable state
C8_RealNameIndexEmpty ==
    part.type \in {"REALNAME", "INDEX"}
        => /\ part.predefinedValues = << >>
           /\ part.descriptions = << >>
           /\ part.koreanDescriptions = << >>
           /\ part.weights = << >>

\* a REALNAME or INDEX part has just refused a value
C8_Witness ==
    /\ constructed
    /\ part.type \in {"REALNAME", "INDEX"}
    /\ call.op = "add_predefined_value"
    /\ call.ret = "False"
    /\ part.predefinedValues = << >>

NoDuplicates(lst) == \A i, j \in 1..Len(lst) : lst[i] = lst[j] => i = j

\* C9 as stated: no value occurs twice in predefinedValues in any state of an
\* object a caller holds, whatever lists were given
C9_NeverDuplicates == constructed => NoDuplicates(part.predefinedValues)

\* C9 amended: add_predefined_value and remove_predefined_value never
\* introduce a duplicate: if no value occurs twice before the call, none
\* does after it (the constructor, from_dict and set_predefined_values store
\* the list they are given, duplicates included)
C9_AddKeepsValuesDistinct ==
    [][(call'.op \in {"add_predefined_value", "remove_predefined_value"}
          /\ NoDuplicates(part.predefinedValues))
        => NoDuplicates(part'.predefinedValues)]_vars

\* add_predefined_value was asked to add a value the part already has
C9_Witness ==
    /\ constructed
    /\ part.type \in {"PREFIX", "SUFFIX"}
    /\ call.op = "add_predefined_value"
    /\ call.ret = "False"
    /\ Contains(part.predefinedValues, call.value)
    /\ NoDuplicates(part.predefinedValues)

\* C10: add_predefined_value(v, d, k) returns false and leaves the four
\* sequences unchanged when the type is REALNAME or INDEX or v is already a
\* value; otherwise it returns true, v is appended with d and k as its labels
\* and every earlier value keeps its position and labels
C10_AddPredefinedValue ==
    [][call'.op = "add_predefined_value"
        => IF part.type \in {"REALNAME", "INDEX"} \/ Contains(part.predefinedValues, call'.value)
           THEN /\ call'.ret = "False"
                /\ part'.predefinedValues = part.predefinedValues
                /\ part'.descriptions = part.descriptions
                /\ part'.koreanDescriptions = part.koreanDescriptions
                /\ part'.weights = part.weights
           ELSE /\ call'.ret = "True"
                /\ part'.predefinedValues = Append(part.predefinedValues, call'.value)
                /\ part'.descriptions = Append(part.descriptions, call'.description)
                /\ part'.koreanDescriptions = Append(part.koreanDescriptions, call'.koreanDescription)]_vars

\* the values of lst other than v
Others(lst, v) == {lst[i] : i \in 1..Len(lst)} \ {v}

\* the step removed one entry of v, with the labels stored at its position
RemovedAt(i) ==
    /\ part'.predefinedValues = RemoveAt(part.predefinedValues, i)
    /\ part'.descriptions = RemoveAt(part.descriptions, i)
    /\ part'.koreanDescriptions = RemoveAt(part.koreanDescriptions, i)

\* u has the same labels after the step as before it
KeepsLabels(u) ==
    /\ get_description_by_value(part', u) = get_description_by_value(part, u)
    /\ get_korean_description_by_value(part', u) = get_korean_description_by_value(part, u)

\* C11 as stated: remove_predefined_value(v) returns false and changes nothing
\* when v is absent; when v is present it removes exactly v with the labels
\* at v's position, the remaining values keep their order, and every
\* remaining value keeps the labels the lookups returned before
C11_RemoveExactlyValue ==
    [][call'.op = "remove_predefined_value"
        => IF ~Contains(part.predefinedValues, call'.value)
           THEN call'.ret = "False" /\ part' = part
           ELSE /\ \E i \in 1..Len(part.predefinedValues) :
                      part.predefinedValues[i] = call'.value /\ RemovedAt(i)
                /\ ~Contains(part'.predefinedValues, call'.value)
                /\ \A i \in 1..Len(part'.predefinedValues) :
                      KeepsLabels(part'.predefinedValues[i])]_vars

\* C11 amended: remove_predefined_value(v) returns false and changes nothing
\* when v is absent; when v is present it removes the first occurrence of v
\* with the labels at that position, the other entries keep their order, and
\* every value other than v keeps the labels the lookups returned before
C11_RemoveFirstOccurrence ==
    [][call'.op = "remove_predefined_value"
        => IF ~Contains(part.predefinedValues, call'.value)
           THEN call'.ret = "False" /\ part' = part
           ELSE /\ RemovedAt(IndexOf(part.predefinedValues, call'.value))
                /\ \A u \in Others(part.predefinedValues, call'.value) : KeepsLabels(u)]_vars

\* a value was removed from in front of a labelled value, which remains
C11_Witness ==
    /\ constructed
    /\ call.op = "remove_predefined_value"
    /\ call.ret # "False"
    /\ Len(part.predefinedValues) = 1
    /\ part.predefinedValues[1] # call.value
    /\ part.descriptions[1] # << >>

Abs(n) == IF n < 0 THEN -n ELSE n

\* the value other than v whose position in lst is farthest from the first
\* position of v (weights are positional: 5 times the position), the first
\* such value on a tie; "" when v is not in lst or lst has no other value
FarthestValue(lst, v) ==
    IF ~Contains(lst, v) \/ Others(lst, v) = {} THEN << >>
    ELSE LET at == IndexOf(lst, v)
             Cand == {i \in 1..Len(lst) : lst[i] # v}
             best == CHOOSE i \in Cand :
                        \A j \in Cand : \/ Abs(5 * i - 5 * at) > Abs(5 * j - 5 * at)
                                        \/ (Abs(5 * i - 5 * at) = Abs(5 * j - 5 * at) /\ i <= j)
         IN lst[best]

\* C12: get_most_different_weight_value(v) returns, among the values other
\* than v, the one whose (positional) weight differs most from the weight of
\* v, the first one on a tie; "" when v is no value or there is no other value
C12_MostDifferentWeightValue ==
    constructed
        => \A v \in PartValues :
              get_most_different_weight_value(part, v) = FarthestValue(part.predefinedValues, v)

\* C13: get_name, pick_name and get_RealName return a string and never
\* raise, for every input string and every requested part name; for a part
\* name that is not in the schema the string is empty
C13_ExtractionNeverRaises ==
    \A i \in 1..Len(log) :
        /\ log[i].op \in {"get_name", "pick_name", "get_RealName"} => log[i].res.kind = "str"
        /\ (log[i].op \in {"get_name", "pick_name"} /\ ~HasNamePart(Self, log[i].name))
               => log[i].res.str = << >>

\* the ranks asked for: the default 0, the weights of the positions, one more
Ranks == {0} \cup {5 * i : i \in 1..(MaxValues + 1)}

\* C14: get_value_by_weight(rank) returns the value whose (positional) weight
\* equals rank, and "" without raising when no value has that weight;
\* get_value_by_min_weight returns the first declared value and
\* get_value_by_max_weight the last
C14_ValueByWeight ==
    constructed
        => LET values == part.predefinedValues
           IN /\ \A rank \in Ranks :
                    get_value_by_weight(part, rank) =
                        IF \E i \in 1..Len(values) : 5 * i = rank
                        THEN values[CHOOSE i \in 1..Len(values) : 5 * i = rank]
                        ELSE << >>
              /\ get_value_by_min_weight(part) = IF values = << >> THEN << >> ELSE values[1]
              /\ get_value_by_max_weight(part) = IF values = << >> THEN << >> ELSE values[Len(values)]

\* the value d gives to part k, "" when d has no such key
ValueIn(d, k) == IF k \in DOMAIN d THEN d[k] ELSE << >>

\* the values of d in schema order, the Index value zero-padded to w digits
\* and no other value altered, the non-empty ones joined with c
JoinedInSchemaOrder(self, d, c, w) ==
    LET values == [i \in 1..Len(self.nameParts) |->
                      LET v == ValueIn(d, self.nameParts[i].name)
                      IN IF self.nameParts[i].type = "INDEX" /\ v # << >>
                         THEN FormatZeroPadded(int(v), w) ELSE v]
    IN join(SelectSeq(values, LAMBDA v : v # << >>), c)

Separable(d, c) ==
    /\ c \in { <<"_">>, <<" ">> }
    /\ SingleToken(ValueIn(d, "RealName"))
    /\ ValueIn(d, "Index") = << >>
          => \A i \in 1..Len(ValueIn(d, "RealName")) : ~isdigit(<<ValueIn(d, "RealName")[i]>>)

HasOpposite(self, i, inStr) ==
    /\ self.nameParts[i].isDirection
    /\ get_most_different_weight_value(self.nameParts[i],
                                       get_name(self, self.nameParts[i].name, inStr)) # << >>
    /\ get_most_different_weight_value(self.nameParts[i],
                                       get_name(self, self.nameParts[i].name, inStr))
           # get_name(self, self.nameParts[i].name, inStr)

\* no direction-flagged part is extracted from inStr
NoDirectionPart(self, inStr) ==
    \A i \in 1..Len(self.nameParts) :
        self.nameParts[i].isDirection => get_name(self, self.nameParts[i].name, inStr) = << >>

\* outStr is inStr with the direction-flagged parts that have an opposite
\* replaced by it and every other part kept, and is inStr itself when no
\* direction-flagged part is extracted from inStr
MirroredOnlyDirection(self, inStr, outStr) ==
    /\ \A i \in 1..Len(self.nameParts) :
          convert_name_to_array(self, outStr)[i]
              = IF HasOpposite(self, i, inStr)
                THEN get_most_different_weight_value(self.nameParts[i],
                         get_name(self, self.nameParts[i].name, inStr))
                ELSE convert_name_to_array(self, inStr)[i]
    /\ NoDirectionPart(self, inStr) => outStr = inStr

FromPartialMapping ==
    /\ input.kind = "dict" /\ CallIs(1, "combine")
    /\ log[1].chr \in { <<"_">>, <<" ">> }
    /\ SingleToken(ValueIn(input.dict, "RealName"))

NumericIndex(name) ==
    IF get_name(Self, "Index", name) = << >> THEN 0 ELSE int(get_name(Self, "Index", name))

\* the names of lst whose numeric index is n, in the order of lst
WithIndex(lst, n) == SelectSeq(lst, LAMBDA name : NumericIndex(name) = n)

\* C17: sort_by_index(l) is a permutation of l in ascending order of the
\* numeric index, a name without a parsable index counting as 0, names of
\* equal index keeping their order in l; the empty list gives the empty list
C17_SortByIndex ==
    CallIs(1, "sort_by_index") =>
        LET l == input.list
            r == log[1].res.list
        IN /\ Len(r) = Len(l)
           /\ \A i \in 1..Len(r) : \A j \in i..Len(r) : NumericIndex(r[i]) <= NumericIndex(r[j])
           /\ \A i \in 1..Len(l) :
                 WithIndex(r, NumericIndex(l[i])) = WithIndex(l, NumericIndex(l[i]))
           /\ l = << >> => r = << >>

\* a list that is out of order and holds a name without index behind a name
\* of index 0 was sorted
C17_Witness ==
    /\ CallIs(1, "sort_by_index")
    /\ input.list = << <<"a", "_", "1", "0">>, <<"a", "_", "0">>, <<"a">> >>
    /\ log[1].res.list = << <<"a", "_", "0">>, <<"a">>, <<"a", "_", "1", "0">> >>

\* the number of characters of the decimal numeral of n >= 0
RECURSIVE SignificantDigits(_)
SignificantDigits(n) == IF n < 10 THEN 1 ELSE 1 + SignificantDigits(n \div 10)

\* outStr has the numeric index of inStr, in a token of max(w, significant
\* digits) characters; no index token when inStr has none
RepaddedTo(inStr, outStr, w) ==
    /\ get_index_as_digit(Self, outStr) = get_index_as_digit(Self, inStr)
    /\ get_name(Self, "Index", inStr) # << >>
          => Len(get_name(Self, "Index", outStr))
                 = Max(w, SignificantDigits(int(get_name(Self, "Index", inStr))))
    /\ get_name(Self, "Index", inStr) = << >> => get_name(Self, "Index", outStr) = << >>

\* C18 as stated: for every name s and width w,
\* get_index_as_digit(set_index_padding_num(s, w)) = get_index_as_digit(s), the
\* index token of the result has max(w, significant digits) characters, and a
\* name without an index gets no index token
C18_AnyName ==
    (input.kind = "str" /\ CallIs(1, "set_index_padding_num"))
        => RepaddedTo(input.str, log[1].res.str, log[1].num)

\* C18 amended: the same for every name s that combine(d, c) produced, c
\* being "_" or " ", from a mapping d of valid values over some of the parts
\* with a single-token RealName, and every width w
C18_RepaddingKeepsIndex ==
    (FromPartialMapping /\ CallIs(2, "set_index_padding_num"))
        => RepaddedTo(log[1].res.str, log[2].res.str, log[2].num)

\* a name with index 10 was padded to fewer characters than its digits
C18_Witness ==
    /\ FromPartialMapping /\ CallIs(2, "set_index_padding_num")
    /\ log[2].num = 1
    /\ ValueIn(input.dict, "Index") = <<"1", "0">>
    /\ get_name(Self, "Index", log[2].res.str) = <<"1", "0">>

\* C19: for a name s whose Index slot is empty increase_index(s, 1) has
\* index 0 (the count starts from -1), and for every name and amount the
\* result carries an index that is not below 0
C19_IndexFromMinusOne ==
    (input.kind = "str" /\ CallIs(1, "increase_index")) =>
        /\ (get_name(Self, "Index", input.str) = << >> /\ log[1].num = 1)
              => get_index_as_digit(Self, log[1].res.str) = [isFalse |-> FALSE, val |-> 0]
        /\ isdigit(get_name(Self, "Index", log[1].res.str))
        /\ get_index_as_digit(Self, log[1].res.str).val >= 0

\* a name with an empty Index slot was increased by 1 and shows index 0
C19_Witness ==
    /\ input.kind = "str" /\ CallIs(1, "increase_index")
    /\ input.str = <<"L", "_", "a">>
    /\ log[1].num = 1
    /\ log[1].res.str = <<"L", "_", "a", "_", "0", "0">>

\* v consists of decimal digits only (at least one)
OnlyDecimalDigits(v) ==
    Len(v) >= 1 /\ \A i \in 1..Len(v) : v[i] \in {"0", "1", "2", "3", "4", "5", "6", "7", "8", "9"}

\* C20: validate_value(v) is true for an INDEX part exactly when v consists
\* only of decimal digits, for a PREFIX or SUFFIX part with predefined values
\* exactly when v is one of them, and always for a PREFIX or SUFFIX part
\* without predefined values, a REALNAME part and an UNDEFINED part; it
\* returns a boolean in every case
C20_ValidateValue ==
    call.op = "validate_value" =>
        /\ call.ret \in {"True", "False"}
        /\ call.ret = "True" <=>
              CASE part.type = "INDEX" -> OnlyDecimalDigits(call.value)
                [] part.type \in {"PREFIX", "SUFFIX"} /\ Len(part.predefinedValues) > 0 ->
                       \E i \in 1..Len(part.predefinedValues) : part.predefinedValues[i] = call.value
                [] OTHER -> TRUE

Labels == { << >>, <<"d">>, <<"k">>, <<"x">> }

\* C22: for every predefined value v of a constructed part
\* get_value_by_description(get_description_by_value(v)) = v, likewise for the
\* Korean pair; get_description_by_value is "" for a value that is not
\* predefined, and get_value_by_description is "" for the empty label and for
\* a label that is the label of no value
C22_LookupBothWays ==
    constructed
        => LET values == part.predefinedValues
           IN /\ \A i \in 1..Len(values) :
                    /\ get_value_by_description(part, get_description_by_value(part, values[i]))
                           = values[i]
                    /\ get_value_by_korean_description(
                           part, get_korean_description_by_value(part, values[i])) = values[i]
              /\ \A v \in PartValues :
                    ~Contains(values, v) =>
                        /\ get_description_by_value(part, v) = << >>
                        /\ get_korean_description_by_value(part, v) = << >>
              /\ \A l \in Labels :
                    (l = << >> \/ ~Contains(part.descriptions, l))
                        => get_value_by_description(part, l) = << >>
              /\ \A l \in Labels :
                    (l = << >> \/ ~Contains(part.koreanDescriptions, l))
                        => get_value_by_korean_description(part, l) = << >>

\* the all-digit tokens of a name
DigitTokens(inStr) == SelectSeq(_split_to_array(inStr), LAMBDA t : isdigit(t))

\* C23: whatever the parts are named, pick_name for the INDEX part returns
\* the rightmost all-digit token when the INDEX-typed part is declared after
\* the REALNAME-typed part and the leftmost otherwise ("" when the name has
\* none), and get_name returns that same token
C23_ScanFollowsTypes ==
    (Len(log) = 1 /\ log[1].op \in {"pick_name", "get_name"})
        => log[1].res =
              StrVal(IF DigitTokens(input.str) = << >> THEN << >>
                     ELSE IF TypedIndex(Self, "INDEX") > TypedIndex(Self, "REALNAME")
                     THEN DigitTokens(input.str)[Len(DigitTokens(input.str))]
                     ELSE DigitTokens(input.str)[1])

\* the part of the schema a get_name call names
PartCalled(c) == get_name_part(Self, c.name)

\* the positions in tokens of the predefined values of part p
Candidates(p, tokens) == {i \in 1..Len(tokens) : Contains(p.predefinedValues, tokens[i])}

\* the position of the candidate of part p: the leftmost predefined token for
\* a PREFIX part, the rightmost for a SUFFIX part
CandidateAt(p, tokens) ==
    IF p.type = "PREFIX"
    THEN CHOOSE i \in Candidates(p, tokens) : \A j \in Candidates(p, tokens) : i <= j
    ELSE CHOOSE i \in Candidates(p, tokens) : \A j \in Candidates(p, tokens) : j <= i

\* the tokens on the outer side of position i: before it for a PREFIX part,
\* behind it for a SUFFIX part
OuterTokens(p, tokens, i) ==
    IF p.type = "PREFIX" THEN SubSeq(tokens, 1, i - 1) ELSE SubSeq(tokens, i + 1, Len(tokens))

\* the non-empty pick_name results of the parts declared on the outer side of
\* p: before a PREFIX part, behind a SUFFIX part
OuterPicks(p, inStr) ==
    LET k == get_name_part_index(Self, p.name) + 1
        outer == IF p.type = "PREFIX" THEN SubSeq(nameParts, 1, k - 1)
                 ELSE SubSeq(nameParts, k + 1, Len(nameParts))
    IN SelectSeq(PickNames(Self, outer, inStr), LAMBDA n : n # << >>)

ElementsOf(lst) == {lst[i] : i \in 1..Len(lst)}

Occurrences(lst, x) == Cardinality({i \in 1..Len(lst) : lst[i] = x})

\* C24 as stated: get_name returns the candidate exactly when the tokens
\* extracted for the parts on the outer side are a strict subset of the tokens
\* on the outer side of the candidate, and "" otherwise
C24_StrictSubset ==
    (Len(log) = 1 /\ log[1].op = "get_name") =>
        LET p == PartCalled(log[1])
            tokens == _split_to_array(input.str)
        IN log[1].res.str =
              IF /\ Candidates(p, tokens) # {}
                 /\ ElementsOf(OuterPicks(p, input.str))
                        \subseteq ElementsOf(OuterTokens(p, tokens, CandidateAt(p, tokens)))
                 /\ ElementsOf(OuterPicks(p, input.str))
                        # ElementsOf(OuterTokens(p, tokens, CandidateAt(p, tokens)))
              THEN tokens[CandidateAt(p, tokens)]
              ELSE << >>

\* every token of outer is a pick of an outer part, each pick covering one token
Covered(outer, picks) ==
    \A t \in ElementsOf(outer) : Occurrences(outer, t) <= Occurrences(picks, t)

\* C24 amended: get_name returns the candidate exactly when every token on
\* the outer side of the candidate is the pick_name result of a part declared
\* on that side, each result covering one token, and "" otherwise; for a
\* SUFFIX part this is stated for names in which the candidate's token occurs
\* once
C24_OuterTokensCovered ==
    (Len(log) = 1 /\ log[1].op = "get_name") =>
        LET p == PartCalled(log[1])
            tokens == _split_to_array(input.str)
        IN (p.type = "SUFFIX" => Cardinality(Candidates(p, tokens)) <= 1)
              => log[1].res.str =
                    IF /\ Candidates(p, tokens) # {}
                       /\ Covered(OuterTokens(p, tokens, CandidateAt(p, tokens)),
                                  OuterPicks(p, input.str))
                    THEN tokens[CandidateAt(p, tokens)]
                    ELSE << >>

\* the Side token behind the Base token was accepted: the one token before
\* it is the pick of Base
C24_Witness ==
    /\ Len(log) = 1 /\ log[1].op = "get_name" /\ log[1].name = "Side"
    /\ input.str = <<"B", "_", "L", "_", "a">>
    /\ log[1].res.str = <<"L">>

\* C25: get_name for a PREFIX part is non-empty only if every token before
\* the returned token is the pick_name result of a part declared before it,
\* each result covering one token; for a SUFFIX part only if every token
\* behind the returned token is the pick_name result of a part declared
\* after it
C25_NoUnclaimedTokenOutside ==
    (Len(log) = 1 /\ log[1].op = "get_name" /\ log[1].res.str # << >>) =>
        /\ Candidates(PartCalled(log[1]), _split_to_array(input.str)) # {}
        /\ log[1].res.str = _split_to_array(input.str)[
               CandidateAt(PartCalled(log[1]), _split_to_array(input.str))]
        /\ Covered(OuterTokens(PartCalled(log[1]), _split_to_array(input.str),
                               CandidateAt(PartCalled(log[1]), _split_to_array(input.str))),
                   OuterPicks(PartCalled(log[1]), input.str))

\* the Front token was returned: the one token behind it is the pick of Nub
C25_Witness ==
    /\ Len(log) = 1 /\ log[1].op = "get_name" /\ log[1].name = "Front"
    /\ input.str = <<"a", "_", "F", "_", "N">>
    /\ log[1].res.str = <<"F">>

\* C26: for a SUFFIX part the candidate is the rightmost predefined token and
\* the check is made at that position: whenever every token behind the
\* rightmost match is the pick_name result of a part declared later, get_name
\* returns the match, also when an equal token stands earlier in the name
C26_SuffixCheckedAtRightmost ==
    (/\ Len(log) = 1 /\ log[1].op = "get_name"
     /\ PartCalled(log[1]).type = "SUFFIX"
     /\ Candidates(PartCalled(log[1]), _split_to_array(input.str)) # {}
     /\ Covered(OuterTokens(PartCalled(log[1]), _split_to_array(input.str),
                            CandidateAt(PartCalled(log[1]), _split_to_array(input.str))),
                OuterPicks(PartCalled(log[1]), input.str)))
    => log[1].res.str = _split_to_array(input.str)[
           CandidateAt(PartCalled(log[1]), _split_to_array(input.str))]

\* the tokens at the positions S, in their order
Kept(tokens, S) ==
    [k \in 1..Cardinality(S) |->
        tokens[CHOOSE i \in S : Cardinality({j \in S : j < i}) = k - 1]]

\* the non-empty get_name values of the parts that are not REALNAME
ExtractedValues(inStr) ==
    LET parts == SelectSeq(nameParts, LAMBDA p : p.type # "REALNAME")
    IN SelectSeq([i \in 1..Len(parts) |-> get_name(Self, parts[i].name, inStr)],
                 LAMBDA v : v # << >>)

\* rest is tokens with one occurrence of each value taken out
OneOfEachRemoved(tokens, values, rest) ==
    \A t \in ElementsOf(tokens) \cup ElementsOf(values) :
        Occurrences(tokens, t) = Occurrences(rest, t) + Occurrences(values, t)

\* C27: get_RealName(s) is the token list of s with one occurrence of each
\* non-empty get_name value of the parts that are not REALNAME removed, the
\* remaining tokens in their order joined with the delimiter detected in s;
\* the extracted tokens and the real-name tokens together are the tokens of s
C27_RealNameIsTheRest ==
    (Len(log) = 1 /\ log[1].op = "get_RealName") =>
        \E S \in SUBSET (1..Len(_split_to_array(input.str))) :
            /\ log[1].res.str = join(Kept(_split_to_array(input.str), S),
                                     _get_filtering_char(input.str))
            /\ OneOfEachRemoved(_split_to_array(input.str), ExtractedValues(input.str),
                                Kept(_split_to_array(input.str), S))

\* the PREFIX token and the SUFFIX token were removed, the middle token stays
C27_Witness ==
    /\ Len(log) = 1 /\ log[1].op = "get_RealName"
    /\ input.str = <<"L", "_", "a", "_", "N">>
    /\ log[1].res.str = <<"a">>

\* the positions of s where a run of characters other than d begins
RunStarts(s, d) == {a \in 1..Len(s) : s[a] # d /\ (a = 1 \/ s[a - 1] = d)}

\* the last position of the run of s that begins at a
RunEnd(s, d, a) ==
    CHOOSE b \in a..Len(s) : (\A i \in a..b : s[i] # d) /\ (b = Len(s) \/ s[b + 1] = d)

\* the non-empty segments of s between occurrences of d, in order
Segments(s, d) ==
    [k \in 1..Cardinality(RunStarts(s, d)) |->
        SubSeq(s,
               CHOOSE a \in RunStarts(s, d) : Cardinality({j \in RunStarts(s, d) : j < a}) = k - 1,
               RunEnd(s, d, CHOOSE a \in RunStarts(s, d) :
                                Cardinality({j \in RunStarts(s, d) : j < a}) = k - 1))]

\* the delimiter the claim names for s: the space when s holds one, otherwise
\* the underscore
ChosenDelimiter(s) == IF Contains(s, " ") THEN " " ELSE "_"

\* C28: _split_to_array splits on the space when the string holds a space,
\* otherwise on the underscore when it holds one; the tokens are the
\* non-empty segments in order, no token is empty and none holds the chosen
\* delimiter; a string holding both is split on spaces only
C28_SplitOnDelimiter ==
    (/\ Len(log) = 1 /\ log[1].op = "_split_to_array"
     /\ (Contains(input.str, " ") \/ Contains(input.str, "_")))
    => /\ log[1].res.list = Segments(input.str, ChosenDelimiter(input.str))
       /\ \A k \in 1..Len(log[1].res.list) :
             /\ log[1].res.list[k] # << >>
             /\ ~Contains(log[1].res.list[k], ChosenDelimiter(input.str))

\* a string holding both delimiters was split on the space; the underscore
\* stays in its token
C28_Witness ==
    /\ Len(log) = 1 /\ log[1].op = "_split_to_array"
    /\ input.str = <<"a", " ", "1", "_">>
    /\ log[1].res.list = << <<"a">>, <<"1", "_">> >>

\* the lengths of the concatenations of the first k tokens: the positions of
\* the string behind which a token ends
Boundaries(tokens) == {Len(join(SubSeq(tokens, 1, k), << >>)) : k \in 0..Len(tokens)}

\* a..b is a segment of s: it begins at the first character or at an
\* upper-case letter and runs up to the next upper-case letter
IsSegment(s, a, b) ==
    /\ a <= b
    /\ (a = 1 \/ s[a] \in UpperChars)
    /\ (b = Len(s) \/ s[b + 1] \in UpperChars)
    /\ \A i \in (a + 1)..b : s[i] \notin UpperChars

\* the first position of the digit run that ends the segment a..b
DigitTailStart(s, a, b) ==
    CHOOSE k \in a..b : (\A i \in k..b : s[i] \in DigitChars) /\ (k = a \/ s[k - 1] \notin DigitChars)

\* the segment a..b, which ends in digits, makes the token before its digit
\* run and the token of the digit run
SplitAtDigitTail(s, tokens, a, b) ==
    Boundaries(tokens) \cap ((a - 1)..b) = {a - 1, DigitTailStart(s, a, b) - 1, b}

\* C29: for a string with no space and no underscore the concatenation of
\* the tokens of _split_to_array is the string, no token is empty, every
\* upper-case letter behind the first character begins a token, and a segment
\* that ends in digits is split into its leading part and its digit run
C29_TokensLoseNothing ==
    (/\ Len(log) = 1 /\ log[1].op = "_split_to_array"
     /\ ~Contains(input.str, " ") /\ ~Contains(input.str, "_"))
    => /\ join(log[1].res.list, << >>) = input.str
       /\ \A k \in 1..Len(log[1].res.list) : log[1].res.list[k] # << >>
       /\ \A i \in 2..Len(input.str) :
             input.str[i] \in UpperChars => (i - 1) \in Boundaries(log[1].res.list)
       /\ \A a \in 1..Len(input.str) : \A b \in a..Len(input.str) :
             (IsSegment(input.str, a, b) /\ input.str[b] \in DigitChars)
                 => SplitAtDigitTail(input.str, log[1].res.list, a, b)

\* the mapping d without the key p
Without(d, p) == [k \in DOMAIN d \ {p} |-> d[k]]

\* the mapping d with p set to v
WithSet(d, p, v) == [k \in DOMAIN d \cup {p} |-> IF k = p THEN v ELSE d[k]]

\* every value d gives to a part of the schema is a valid value of that part
ValidMapping(d) ==
    \A i \in 1..Len(nameParts) :
        nameParts[i].name \in DOMAIN d => validate_value(nameParts[i], d[nameParts[i].name])

\* remove_name_part(p, combine(d, "_")) is combine(d without p, "_")
RemovedAsCombined ==
    (/\ FromMapping /\ ValidMapping(input.dict)
     /\ CallIs(2, "remove_name_part") /\ HasNamePart(Self, log[2].name))
    => log[2].res.str = combine(Self, Without(input.dict, log[2].name), <<"_">>)

\* replace_name_part(p, combine(d, "_"), v) is combine(d with p set to v, "_")
ReplacedAsCombined ==
    (/\ FromMapping /\ ValidMapping(input.dict)
     /\ CallIs(2, "replace_name_part") /\ HasNamePart(Self, log[2].name)
     /\ validate_value(get_name_part(Self, log[2].name), log[2].chr))
    => log[2].res.str = combine(Self, WithSet(input.dict, log[2].name, log[2].chr), <<"_">>)

\* an edit that names a part the schema lacks leaves every slot as it was
UnknownPartChangesNothing ==
    \A k \in 1..Len(log) :
        (/\ log[k].op \in {"replace_name_part", "remove_name_part",
                           "add_prefix_to_name_part", "add_suffix_to_name_part"}
         /\ ~HasNamePart(Self, log[k].name))
        => convert_name_to_array(Self, log[k].res.str)
               = convert_name_to_array(Self, ArgOf(k).str)

\* C30: structural edits change the slot of the named part and no other: for
\* the canonical name s = combine(d, "_") of a valid mapping d,
\* remove_name_part(p, s) is combine(d without p, "_") and
\* replace_name_part(p, s, v) is combine(d with p set to v, "_"); when the
\* part name is not in the schema, replace_name_part, remove_name_part,
\* add_prefix_to_name_part and add_suffix_to_name_part change no slot
C30_EditsOnlyNamedSlot ==
    RemovedAsCombined /\ ReplacedAsCombined /\ UnknownPartChangesNothing

====
